---- MODULE Spec2Model ----
(***************************************************************************)
(* Transaction engine of the payments service: classifier, composer        *)
(* (ledger writer), converter and the create_transaction orchestrator,     *)
(* run by concurrent database workers against one ledger.                  *)
(***************************************************************************)
EXTENDS Integers, Sequences, FiniteSets, TLC

\* ---------------------------------------------------------------- bounds
\* total number of create_transaction calls started in a behaviour
MaxCalls == 2
\* largest input.value a caller submits
MaxValue == 3
\* largest input.fee a caller submits
MaxFee == 1

\* the calls of create_transaction, numbered in the order they start; each
\* runs on its own database worker
Procs == 1..MaxCalls

\* ------------------------------------------------------------- data model
Currency == {"Btc", "Eth", "Stq"}

Account(id, user, cur, kind, addr) ==
    [id |-> id, user_id |-> user, currency |-> cur, kind |-> kind, address |-> addr]

NoAccount == Account("none", "none", "none", "none", "none")

\* the rows of the accounts table; created externally, immutable in the core
Accounts ==
    { Account("a1", "u1", "Eth", "Cr", "A1"),
      Account("a2", "u1", "Btc", "Cr", "A2"),
      Account("b1", "u2", "Eth", "Cr", "B1"),
      Account("b2", "u2", "Btc", "Cr", "B2"),
      Account("d1", "u1", "Eth", "Dr", "D1"),
      Account("d2", "u1", "Eth", "Dr", "D2"),
      Account("dB", "u1", "Btc", "Dr", "DB"),
      Account("sdB", "sys", "Btc", "Dr", "SDB"),
      Account("liqB", "sys", "Btc", "Cr", "LB"),
      Account("liqE", "sys", "Eth", "Cr", "LE"),
      Account("liqS", "sys", "Stq", "Cr", "LS"),
      Account("feeB", "sys", "Btc", "Cr", "FB"),
      Account("feeE", "sys", "Eth", "Cr", "FE"),
      Account("feeS", "sys", "Stq", "Cr", "FS"),
      Account("trB", "sys", "Btc", "Cr", "TB"),
      Account("trE", "sys", "Eth", "Cr", "TE"),
      Account("trS", "sys", "Stq", "Cr", "TS") }

SystemAccountIds ==
    {"sdB", "liqB", "liqE", "liqS", "feeB", "feeE", "feeS", "trB", "trE", "trS"}

\* Cr-kind accounts of ordinary users
UserCrAccountIds == {a.id : a \in {x \in Accounts : x.kind = "Cr" /\ x.user_id # "sys"}}

\* accounts_repo.get(id): Some(account) or None
accounts_repo_get(id) ==
    IF \E a \in Accounts : a.id = id
    THEN CHOOSE a \in Accounts : a.id = id
    ELSE NoAccount

\* accounts_repo.get_by_address(address, currency, kind)
accounts_repo_get_by_address(addr, cur, kind) ==
    IF \E a \in Accounts : a.address = addr /\ a.currency = cur /\ a.kind = kind
    THEN CHOOSE a \in Accounts : a.address = addr /\ a.currency = cur /\ a.kind = kind
    ELSE NoAccount

\* accounts_repo.filter_by_address(address)
accounts_repo_filter_by_address(addr) == {a \in Accounts : a.address = addr}

\* a posting (row of the transactions table); blockchain_tx_id 0 is None
Posting(id, gid, user, dr, cr, cur, value, status, btx, kind, gkind) ==
    [id |-> id, gid |-> gid, user_id |-> user, dr_account_id |-> dr,
     cr_account_id |-> cr, currency |-> cur, value |-> value, status |-> status,
     blockchain_tx_id |-> btx, kind |-> kind, group_kind |-> gkind]

NoTx == Posting(0, 0, "none", "none", "none", "none", 0, "none", 0, "none", "none")

\* an allocator that leaves a gap after every id
next_skipping(id) == id + 2

\* TransactionId::next()
next(id) == id + 1

Range(s) == {s[i] : i \in 1..Len(s)}

RECURSIVE SumValues(_)
SumValues(S) ==
    IF S = {} THEN 0
    ELSE LET t == CHOOSE x \in S : TRUE IN t.value + SumValues(S \ {t})

debit_sum(rows, acc_id) == SumValues({t \in rows : t.dr_account_id = acc_id})
credit_sum(rows, acc_id) == SumValues({t \in rows : t.cr_account_id = acc_id})

\* transactions_repo.get_account_balance(account_id, kind)
get_account_balance(rows, acc_id, kind) ==
    IF kind = "Cr"
    THEN credit_sum(rows, acc_id) - debit_sum(rows, acc_id)
    ELSE debit_sum(rows, acc_id) - credit_sum(rows, acc_id)

\* transactions_repo.get_accounts_balance(user_id, [account])[0].balance
get_accounts_balance(rows, account) == get_account_balance(rows, account.id, account.kind)

\* ------------------------------------------------------- results of calls
\* Result of a fallible step: ok, or an error kind with its context;
\* tx is the inserted posting, reads the accounts whose balance was read
Ok(tx, reads) == [ok |-> TRUE, kind |-> "none", ctx |-> "none", tx |-> tx, reads |-> reads]
Err(kind, ctx, reads) == [ok |-> FALSE, kind |-> kind, ctx |-> ctx, tx |-> NoTx, reads |-> reads]

\* the transaction's view of the database: rows it can read (its snapshot
\* plus its own writes) and the ids present for the primary-key check
Db(rows, ids) == [rows |-> rows, ids |-> ids]
DbInsert(db, tx) == Db(db.rows \cup {tx}, db.ids \cup {tx.id})

\* transactions_repo.create(new): insert, failing on a duplicate primary key
transactions_repo_create(db, tx) ==
    IF tx.id \in db.ids THEN Err("Internal", "UniqueViolation", {}) ELSE Ok(tx, {})

\* ---------------------------------------------------------- SystemService
get_system_liquidity_account(cur) ==
    accounts_repo_get(CASE cur = "Btc" -> "liqB" [] cur = "Eth" -> "liqE" [] OTHER -> "liqS")

get_system_fees_account(cur) ==
    accounts_repo_get(CASE cur = "Btc" -> "feeB" [] cur = "Eth" -> "feeE" [] OTHER -> "feeS")

get_system_transfer_account(cur) ==
    accounts_repo_get(CASE cur = "Btc" -> "trB" [] cur = "Eth" -> "trE" [] OTHER -> "trS")

\* --------------------------------------------------------------- Composer
\* create_base_tx without the balance pre-check (the balance is never read)
create_base_tx_unchecked(db, tx, dr_account, cr_account) ==
    IF dr_account.currency # cr_account.currency
    THEN Err("Internal", "InvalidCurrency", {})
    ELSE IF tx.dr_account_id # dr_account.id \/ tx.cr_account_id # cr_account.id
    THEN Err("Internal", "InvalidTransaction", {})
    ELSE transactions_repo_create(db, tx)

\* create_base_tx dropping the error of the insert
create_base_tx_swallow(db, tx, dr_account, cr_account) ==
    IF dr_account.currency # cr_account.currency
    THEN Err("Internal", "InvalidCurrency", {})
    ELSE IF tx.dr_account_id # dr_account.id \/ tx.cr_account_id # cr_account.id
    THEN Err("Internal", "InvalidTransaction", {})
    ELSE IF get_accounts_balance(db.rows, dr_account) >= tx.value
    THEN Ok(tx, {dr_account.id})
    ELSE Err("Balance", "NotEnoughFunds", {dr_account.id})

\* create_base_tx requiring a balance strictly above the value
create_base_tx_strict(db, tx, dr_account, cr_account) ==
    IF dr_account.currency # cr_account.currency
    THEN Err("Internal", "InvalidCurrency", {})
    ELSE IF tx.dr_account_id # dr_account.id \/ tx.cr_account_id # cr_account.id
    THEN Err("Internal", "InvalidTransaction", {})
    ELSE IF get_accounts_balance(db.rows, dr_account) > tx.value
    THEN [transactions_repo_create(db, tx) EXCEPT !.reads = {dr_account.id}]
    ELSE Err("Balance", "NotEnoughFunds", {dr_account.id})

\* create_base_tx without the check of the posting's account ids
create_base_tx_any_accounts(db, tx, dr_account, cr_account) ==
    IF dr_account.currency # cr_account.currency
    THEN Err("Internal", "InvalidCurrency", {})
    ELSE IF get_accounts_balance(db.rows, dr_account) >= tx.value
    THEN [transactions_repo_create(db, tx) EXCEPT !.reads = {dr_account.id}]
    ELSE Err("Balance", "NotEnoughFunds", {dr_account.id})

\* create_base_tx(tx, dr_account, cr_account)
create_base_tx(db, tx, dr_account, cr_account) ==
    IF dr_account.currency # cr_account.currency
    THEN Err("Internal", "InvalidCurrency", {})
    ELSE IF tx.dr_account_id # dr_account.id \/ tx.cr_account_id # cr_account.id
    THEN Err("Internal", "InvalidTransaction", {})
    ELSE IF get_accounts_balance(db.rows, dr_account) >= tx.value
    THEN [transactions_repo_create(db, tx) EXCEPT !.reads = {dr_account.id}]
    ELSE Err("Balance", "NotEnoughFunds", {dr_account.id})

\* create_internal_mono_currency_tx(create_tx_input, dr_account, cr_account)
create_internal_mono_currency_tx(db, create_tx_input, dr_account, cr_account) ==
    create_base_tx(db,
        Posting(create_tx_input.id, create_tx_input.id, create_tx_input.user_id,
                dr_account.id, cr_account.id, dr_account.currency,
                create_tx_input.value, "Done", 0, "Internal", "Internal"),
        dr_account, cr_account)

\* Result of a composer function: the postings written so far (res)
CRes(ok, kind, ctx, res, reads) ==
    [ok |-> ok, kind |-> kind, ctx |-> ctx, res |-> res, reads |-> reads]

\* Amount::convert(currency, rate), the rate a fraction <<num, den>>
convert(value, rate) == (value * rate[1]) \div rate[2]

\* 1.0 / exchange_rate
inverse(rate) == <<rate[2], rate[1]>>

\* (from_value, to_value) of create_internal_multi_currency_tx; <<>> when
\* value_currency is neither account's currency
multi_values(input, from_account, to_account, exchange_rate) ==
    IF from_account.currency = input.value_currency
    THEN <<input.value, convert(input.value, exchange_rate)>>
    ELSE IF to_account.currency = input.value_currency
    THEN <<convert(input.value, inverse(exchange_rate)), input.value>>
    ELSE <<>>

\* create_internal_multi_currency_tx calling the exchange before it writes
\* any posting
create_internal_multi_currency_tx_exchange_first(db, input, from_account, to_account, exchange_rate) ==
    CRes(TRUE, "none", "none", <<>>, {})

\* create_internal_multi_currency_tx up to the exchange call: the MultiFrom
\* and MultiTo postings
create_internal_multi_currency_tx_postings(db, input, from_account, to_account, exchange_rate) ==
    LET vals == multi_values(input, from_account, to_account, exchange_rate) IN
    IF vals = <<>> THEN CRes(FALSE, "Internal", "InvalidCurrency", <<>>, {})
    ELSE
    LET from_counterpart_acc == get_system_liquidity_account(from_account.currency)
        from_tx == Posting(input.id, input.id, input.user_id, from_account.id,
                           from_counterpart_acc.id, from_account.currency, vals[1],
                           "Done", 0, "MultiFrom", "InternalMulti")
        r1 == create_base_tx(db, from_tx, from_account, from_counterpart_acc)
    IN  IF from_counterpart_acc = NoAccount
        THEN CRes(FALSE, "NotFound", "NoAccount", <<>>, {})
        ELSE IF ~r1.ok THEN CRes(FALSE, r1.kind, r1.ctx, <<>>, r1.reads)
        ELSE
        LET db2 == DbInsert(db, r1.tx)
            to_counterpart_acc == get_system_liquidity_account(to_account.currency)
            to_tx == Posting(next(input.id), input.id, input.user_id, to_account.id,
                             to_counterpart_acc.id, to_account.currency, vals[2],
                             "Done", 0, "MultiTo", "InternalMulti")
            r2 == create_base_tx(db2, to_tx, to_account, to_counterpart_acc)
        IN  IF to_counterpart_acc = NoAccount
            THEN CRes(FALSE, "NotFound", "NoAccount", <<r1.tx>>, r1.reads)
            ELSE IF ~r2.ok
            THEN CRes(FALSE, r2.kind, r2.ctx, <<r1.tx>>, r1.reads \cup r2.reads)
            ELSE CRes(TRUE, "none", "none", <<r1.tx, r2.tx>>, r1.reads \cup r2.reads)

\* the end of create_internal_multi_currency_tx with the exchange error dropped
create_internal_multi_currency_tx_exchange_ignored(res, exchange_ok) ==
    CRes(TRUE, "none", "none", res, {})

\* the end of create_internal_multi_currency_tx: the result of
\* exchange_client.exchange(..).wait()? decides the function's result
create_internal_multi_currency_tx_exchange(res, exchange_ok) ==
    IF exchange_ok
    THEN CRes(TRUE, "none", "none", res, {})
    ELSE CRes(FALSE, "Internal", "ExchangeClient", res, {})

\* ExchangeInput built by create_internal_multi_currency_tx
ExchangeInput(input, from_account, to_account, exchange_id, exchange_rate) ==
    [id |-> exchange_id, from |-> from_account.currency, to |-> to_account.currency,
     rate |-> exchange_rate, actual_amount |-> input.value,
     amount_currency |-> input.value_currency]

\* ------------------------------------------------------ BlockchainService
\* config.fees_options.fee_upside
fee_upside == 1

\* FeeEstimate of estimate_withdrawal_fee; rate_ok and rate are the answer of
\* exchange_client.rate, asked only when the currencies differ. fee_price only
\* parameterises the signed payload and is not carried.
estimate_withdrawal_fee(input_gross_fee, input_fee_currency, withdrawal_currency, rate_ok, rate) ==
    LET total_blockchain_fee_native_currency == input_gross_fee \div fee_upside
        estimate_currency == IF withdrawal_currency = "Btc" THEN "Btc" ELSE "Eth"
    IN  IF input_fee_currency = estimate_currency
        THEN [ok |-> TRUE, gross_fee |-> total_blockchain_fee_native_currency,
              currency |-> estimate_currency, asked |-> FALSE]
        ELSE IF ~rate_ok
        THEN [ok |-> FALSE, gross_fee |-> 0, currency |-> estimate_currency, asked |-> TRUE]
        ELSE [ok |-> TRUE, gross_fee |-> convert(total_blockchain_fee_native_currency, rate),
              currency |-> estimate_currency, asked |-> TRUE]

\* create_bitcoin_tx / create_ethereum_tx returning the error of a failed
\* write of the pending row
create_blockchain_tx_pending_required(currency, posted, pending_ok, hash) ==
    IF ~posted \/ ~pending_ok THEN [ok |-> FALSE, id |-> 0, pending |-> {}]
    ELSE [ok |-> TRUE, id |-> hash, pending |-> {hash}]

\* create_bitcoin_tx / create_ethereum_tx: Ok(blockchain_tx_id) when the
\* lookup, the signature and the post all succeed, else the error; the
\* pending row is written once the transaction is posted
create_blockchain_tx(currency, posted, pending_ok, hash) ==
    IF ~posted THEN [ok |-> FALSE, id |-> 0, pending |-> {}]
    ELSE [ok |-> TRUE, id |-> hash, pending |-> IF pending_ok THEN {hash} ELSE {}]

\* create_ethereum_tx: the address whose nonce the submission uses
tx_initiator(currency, from) ==
    IF currency = "Stq" THEN get_system_fees_account("Eth").address ELSE from

\* no persisted nonce (Option::None), and the nonce field of a Bitcoin submission
NoNonce == -1

\* create_ethereum_tx: the nonce signed, from the persisted nonce (or
\* NoNonce) and the chain nonce
choose_nonce(maybe_db_nonce, ethereum_nonce) ==
    IF maybe_db_nonce = NoNonce THEN ethereum_nonce
    ELSE IF maybe_db_nonce > ethereum_nonce THEN maybe_db_nonce ELSE ethereum_nonce

\* the chain fact (and the pending row) a successful submission creates
ChainTx(hash, from, to, value, currency) ==
    [hash |-> hash, from |-> from, to |-> to, value |-> value, currency |-> currency]

\* ----------------------------------------- Composer: external (withdrawal)
AccountWithBalance(account, balance) == [account |-> account, balance |-> balance]

\* transactions_repo.get_accounts_for_withdrawal(value, currency, user_id, fee):
\* the selections the repository may return, each a list of the user's
\* deposit (Dr) accounts of the currency with takes within their balances
\* that sum to exactly value
get_accounts_for_withdrawal(rows, value, currency, user_id, total_fee_est) ==
    LET accs == {a \in Accounts : a.kind = "Dr" /\ a.currency = currency /\ a.user_id = user_id}
        bal(a) == get_account_balance(rows, a.id, "Dr")
        two == {<<AccountWithBalance(tr[1], tr[3]), AccountWithBalance(tr[2], value - tr[3])>> :
                    tr \in accs \X accs \X (1..(value - 1))}
    IN  (IF value = 0 THEN {<<>>} ELSE {})
        \cup {<<AccountWithBalance(a, value)>> : a \in {x \in accs : value >= 1 /\ bal(x) >= value}}
        \cup {s \in two : /\ s[1].account # s[2].account
                          /\ bal(s[1].account) >= s[1].balance
                          /\ bal(s[2].account) >= s[2].balance}

\* the group overrides of create_external_mono_currency_tx (gid, tx_kind,
\* tx_group_kind, fee_currency, fee_payer_account_id); "none" and 0 are None
Ovr(gid, tx_kind, tx_group_kind, fee_currency, fee_payer_account_id) ==
    [gid |-> gid, tx_kind |-> tx_kind, tx_group_kind |-> tx_group_kind,
     fee_currency |-> fee_currency, fee_payer_account_id |-> fee_payer_account_id]

NoOvr == Ovr(0, "none", "none", "none", "none")

unwrap_or(opt, default) == IF opt = "none" THEN default ELSE opt

\* create_external_mono_currency_tx up to the first submission without the
\* double check of the balances and without the check of the sum
create_external_mono_currency_tx_prepare_unchecked(db, input, from_account, to_currency, ovr, est, found, sel) ==
    IF from_account.currency # to_currency
    THEN CRes(FALSE, "Internal", "InvalidCurrency", <<>>, {})
    ELSE IF ~est.ok THEN CRes(FALSE, "Internal", "ExchangeClient", <<>>, {})
    ELSE IF ~found THEN CRes(FALSE, "Internal", "NotEnoughFunds", <<>>, {})
    ELSE CRes(TRUE, "none", "none", <<>>, {})

\* create_external_mono_currency_tx up to the first submission: the currency
\* check, the fee estimate, the selection sel the repository returned (found
\* is FALSE when it returned an error), the double check and the sum check
create_external_mono_currency_tx_prepare(db, input, from_account, to_currency, ovr, est, found, sel) ==
    LET drs == {a.id : a \in {x \in Accounts : x.kind = "Dr" /\ x.currency = to_currency
                                               /\ x.user_id = input.user_id}}
        total_value == SumValues({[id |-> i, value |-> sel[i].balance] : i \in 1..Len(sel)})
    IN  IF from_account.currency # to_currency
        THEN CRes(FALSE, "Internal", "InvalidCurrency", <<>>, {})
        ELSE IF ~est.ok
        THEN CRes(FALSE, "Internal", "ExchangeClient", <<>>, {})
        ELSE IF ~found
        THEN CRes(FALSE, "Internal", "NotEnoughFunds", <<>>, drs)
        ELSE IF \E i \in 1..Len(sel) :
                    get_account_balance(db.rows, sel[i].account.id, "Dr") < sel[i].balance
        THEN CRes(FALSE, "Balance", "NotEnoughFunds", <<>>, drs)
        ELSE IF total_value # input.value
        THEN CRes(FALSE, "Internal", "InvalidValue", <<>>, drs)
        ELSE IF get_system_fees_account(to_currency) = NoAccount
        THEN CRes(FALSE, "NotFound", "NoAccount", <<>>, drs)
        ELSE CRes(TRUE, "none", "none", <<>>, drs)

\* the Withdrawal posting written with status Done
create_external_mono_currency_tx_leg_done(db, input, from_account, acc, value, to_currency, ovr, current_tx_id, blockchain_tx_id) ==
    create_base_tx(db,
        Posting(current_tx_id, IF ovr.gid = 0 THEN input.id ELSE ovr.gid, input.user_id,
                from_account.id, acc.id, to_currency, value, "Done", blockchain_tx_id,
                unwrap_or(ovr.tx_kind, "Withdrawal"),
                unwrap_or(ovr.tx_group_kind, "Withdrawal")),
        from_account, acc)

\* the Withdrawal posting written after the submission for acc succeeded
create_external_mono_currency_tx_leg(db, input, from_account, acc, value, to_currency, ovr, current_tx_id, blockchain_tx_id) ==
    create_base_tx(db,
        Posting(current_tx_id, IF ovr.gid = 0 THEN input.id ELSE ovr.gid, input.user_id,
                from_account.id, acc.id, to_currency, value, "Pending", blockchain_tx_id,
                unwrap_or(ovr.tx_kind, "Withdrawal"),
                unwrap_or(ovr.tx_group_kind, "Withdrawal")),
        from_account, acc)

\* a failed submission never aborts the group
on_submission_error_always_break(res_len) == "break"

\* what a failed submission does: abort while nothing is on chain, else log
\* the error and stop iterating
on_submission_error(res_len) == IF res_len = 0 THEN "abort" ELSE "break"

\* the Fee posting appended after the source legs
create_external_mono_currency_tx_fee(db, input, from_account, to_currency, ovr, current_tx_id) ==
    LET fees_account == get_system_fees_account(to_currency)
        fee_currency == unwrap_or(ovr.fee_currency, from_account.currency)
    IN  create_base_tx(db,
            Posting(current_tx_id, IF ovr.gid = 0 THEN input.id ELSE ovr.gid, input.user_id,
                    unwrap_or(ovr.fee_payer_account_id, from_account.id), fees_account.id,
                    fee_currency, input.fee, "Done", 0, "Fee",
                    unwrap_or(ovr.tx_group_kind, "Withdrawal")),
            from_account, fees_account)

\* the input create_external_multi_currency_tx hands to the withdrawal writer
external_multi_input(input, transfer_account, withdrawal_value, to_currency) ==
    [input EXCEPT !.id = next(next(input.id)), !.from = transfer_account.id,
                  !.value = withdrawal_value, !.value_currency = to_currency]

\* the overrides create_external_multi_currency_tx passes
external_multi_ovr(input, from_account) ==
    Ovr(input.id, "Withdrawal", "WithdrawalMulti", from_account.currency, from_account.id)

\* ------------------------------------------------------------- Classifier
Input(id, user_id, from, to, to_type, to_currency, value, value_currency, fee, exchange_id, exchange_rate) ==
    [id |-> id, user_id |-> user_id, from |-> from, to |-> to, to_type |-> to_type,
     to_currency |-> to_currency, value |-> value, value_currency |-> value_currency,
     fee |-> fee, exchange_id |-> exchange_id, exchange_rate |-> exchange_rate]

NoRate == <<0, 0>>

TxType(type, from, to, address, currency, exchange_id, rate) ==
    [type |-> type, from |-> from, to |-> to, address |-> address, currency |-> currency,
     exchange_id |-> exchange_id, rate |-> rate, kind |-> "none", ctx |-> "none"]

ClassifyErr(kind, ctx) ==
    [type |-> "Err", from |-> NoAccount, to |-> NoAccount, address |-> "none",
     currency |-> "none", exchange_id |-> "none", rate |-> NoRate, kind |-> kind, ctx |-> ctx]

\* Receipt::to_account_id succeeds on a well-formed account id
is_account_id(s) == s \in {a.id : a \in Accounts} \cup {"zz"}

\* a classifier that looks up no destination account and asks for no
\* exchange fields: every request is a withdrawal to input.to
validate_and_classify_transaction_address_only(input) ==
    LET from_account == accounts_repo_get(input.from) IN
    IF from_account = NoAccount THEN ClassifyErr("NotFound", "NoAccount")
    ELSE IF from_account.currency # input.to_currency
    THEN TxType("WithdrawalExchange", from_account, NoAccount, input.to,
                input.to_currency, input.exchange_id, input.exchange_rate)
    ELSE TxType("Withdrawal", from_account, NoAccount, input.to, input.to_currency,
                "none", NoRate)

\* validate_and_classify_transaction(input)
validate_and_classify_transaction(input) ==
    LET from_account == accounts_repo_get(input.from)
        has_exchange == input.exchange_id # "none" /\ input.exchange_rate # NoRate
    IN
    IF from_account = NoAccount THEN ClassifyErr("NotFound", "NoAccount")
    ELSE IF input.to_type = "Account" THEN
        LET to_account == accounts_repo_get(input.to) IN
        IF ~is_account_id(input.to) THEN ClassifyErr("MalformedInput", "InvalidUuid")
        ELSE IF to_account = NoAccount THEN ClassifyErr("NotFound", "NoAccount")
        ELSE IF to_account.currency # input.to_currency
        THEN ClassifyErr("MalformedInput", "InvalidCurrency")
        ELSE IF from_account.currency # to_account.currency THEN
            IF ~has_exchange THEN ClassifyErr("MalformedInput", "MissingExchangeRate")
            ELSE IF input.value_currency # from_account.currency
                    /\ input.value_currency # to_account.currency
            THEN ClassifyErr("MalformedInput", "InvalidCurrency")
            ELSE TxType("InternalExchange", from_account, to_account, "none",
                        to_account.currency, input.exchange_id, input.exchange_rate)
        ELSE TxType("Internal", from_account, to_account, "none", to_account.currency,
                    "none", NoRate)
    ELSE
        LET to_address == input.to
            to_account == accounts_repo_get_by_address(to_address, input.to_currency, "Cr")
        IN
        IF to_account = NoAccount THEN
            IF accounts_repo_filter_by_address(to_address) # {}
            THEN ClassifyErr("MalformedInput", "InvalidCurrency")
            ELSE IF from_account.currency # input.to_currency THEN
                IF ~has_exchange THEN ClassifyErr("MalformedInput", "MissingExchangeRate")
                ELSE TxType("WithdrawalExchange", from_account, NoAccount, to_address,
                            input.to_currency, input.exchange_id, input.exchange_rate)
            ELSE TxType("Withdrawal", from_account, NoAccount, to_address,
                        input.to_currency, "none", NoRate)
        ELSE IF from_account.currency # to_account.currency THEN
            IF ~has_exchange THEN ClassifyErr("MalformedInput", "MissingExchangeRate")
            ELSE TxType("InternalExchange", from_account, to_account, "none",
                        to_account.currency, input.exchange_id, input.exchange_rate)
        ELSE TxType("Internal", from_account, to_account, "none", to_account.currency,
                    "none", NoRate)

\* -------------------------------------------------------------- Converter
TransactionAddressInfo(account_id, blockchain_address) ==
    [account_id |-> account_id, blockchain_address |-> blockchain_address]

TransactionOut(id, from, to, from_value, from_currency, to_value, to_currency, fee, status, blockchain_tx_id) ==
    [id |-> id, from |-> from, to |-> to, from_value |-> from_value,
     from_currency |-> from_currency, to_value |-> to_value, to_currency |-> to_currency,
     fee |-> fee, status |-> status, blockchain_tx_id |-> blockchain_tx_id]

NoOut == TransactionOut(0, <<>>, TransactionAddressInfo("none", "none"), 0, "none", 0, "none",
                        0, "none", 0)

ConvOk(out) == [ok |-> TRUE, kind |-> "none", ctx |-> "none", out |-> out]
ConvErr(kind, ctx) == [ok |-> FALSE, kind |-> kind, ctx |-> ctx, out |-> NoOut]
InvalidStructure == ConvErr("Internal", "InvalidTransactionStructure")

\* transactions.iter().find(|tx| tx.kind == kind), NoTx for None
find_kind(transactions, kind) ==
    IF \E i \in 1..Len(transactions) : transactions[i].kind = kind
    THEN transactions[CHOOSE i \in 1..Len(transactions) :
                          /\ transactions[i].kind = kind
                          /\ \A j \in 1..(i - 1) : transactions[j].kind # kind]
    ELSE NoTx

\* transactions.iter().filter(pred), in order
RECURSIVE filter_kinds(_, _, _)
filter_kinds(transactions, kinds, keep) ==
    IF transactions = <<>> THEN <<>>
    ELSE (IF (Head(transactions).kind \in kinds) = keep THEN <<Head(transactions)>> ELSE <<>>)
         \o filter_kinds(Tail(transactions), kinds, keep)

NoChainTx == ChainTx(0, "none", "none", 0, "none")

\* blockchain_transactions_repo.get(hash)
blockchain_transactions_repo_get(blockchain_rows, hash) ==
    IF \E r \in blockchain_rows : r.hash = hash
    THEN CHOOSE r \in blockchain_rows : r.hash = hash
    ELSE NoChainTx

convert_deposit_transaction(transactions, blockchain_rows) ==
    IF Len(transactions) # 1 THEN InvalidStructure
    ELSE LET tx == transactions[1]
             blockchain_tx == blockchain_transactions_repo_get(blockchain_rows, tx.blockchain_tx_id)
             to_account == accounts_repo_get(tx.cr_account_id)
         IN  IF tx.kind # "Deposit" THEN InvalidStructure
             ELSE IF tx.blockchain_tx_id = 0 THEN InvalidStructure
             ELSE IF blockchain_tx = NoChainTx THEN InvalidStructure
             ELSE IF to_account = NoAccount THEN InvalidStructure
             ELSE ConvOk(TransactionOut(tx.gid,
                      <<TransactionAddressInfo("none", blockchain_tx.from)>>,
                      TransactionAddressInfo(tx.cr_account_id, to_account.address),
                      tx.value, tx.currency, tx.value, tx.currency, 0, tx.status,
                      tx.blockchain_tx_id))

convert_internal_transaction(transactions) ==
    IF Len(transactions) # 1 THEN InvalidStructure
    ELSE LET tx == transactions[1]
             from_account == accounts_repo_get(tx.dr_account_id)
             to_account == accounts_repo_get(tx.dr_account_id)
         IN  IF tx.kind # "Internal" THEN InvalidStructure
             ELSE IF from_account = NoAccount \/ to_account = NoAccount
             THEN ConvErr("Panic", "unwrap")
             ELSE ConvOk(TransactionOut(tx.gid,
                      <<TransactionAddressInfo(from_account.id, from_account.address)>>,
                      TransactionAddressInfo(to_account.id, to_account.address),
                      tx.value, tx.currency, tx.value, tx.currency, 0, tx.status,
                      tx.blockchain_tx_id))

convert_internal_multi_transaction(transactions) ==
    IF Len(transactions) # 2 THEN InvalidStructure
    ELSE LET from_tx == find_kind(transactions, "MultiFrom")
             to_tx == find_kind(transactions, "MultiTo")
             from_account == accounts_repo_get(from_tx.dr_account_id)
             to_account == accounts_repo_get(to_tx.cr_account_id)
         IN  IF from_tx = NoTx THEN InvalidStructure
             ELSE IF to_tx = NoTx THEN InvalidStructure
             ELSE IF from_account = NoAccount \/ to_account = NoAccount
             THEN ConvErr("Panic", "unwrap")
             ELSE ConvOk(TransactionOut(from_tx.gid,
                      <<TransactionAddressInfo(from_account.id, from_account.address)>>,
                      TransactionAddressInfo(to_account.id, to_account.address),
                      from_tx.value, from_tx.currency, to_tx.value, to_tx.currency, 0,
                      "Done", 0))

convert_external_transaction(transactions, blockchain_rows) ==
    LET withdrawal_tx == find_kind(transactions, "Withdrawal")
        fee_tx == find_kind(transactions, "Fee")
        withdrawal_account == accounts_repo_get(withdrawal_tx.dr_account_id)
        blockchain_tx ==
            blockchain_transactions_repo_get(blockchain_rows, withdrawal_tx.blockchain_tx_id)
    IN  IF withdrawal_tx = NoTx THEN InvalidStructure
        ELSE IF fee_tx = NoTx THEN InvalidStructure
        ELSE IF withdrawal_tx.blockchain_tx_id = 0 THEN InvalidStructure
        ELSE IF withdrawal_account = NoAccount THEN InvalidStructure
        ELSE IF blockchain_tx = NoChainTx THEN InvalidStructure
        ELSE ConvOk(TransactionOut(withdrawal_tx.gid,
                 <<TransactionAddressInfo(withdrawal_account.id, withdrawal_account.address)>>,
                 TransactionAddressInfo("none", blockchain_tx.to),
                 withdrawal_tx.value, withdrawal_tx.currency, withdrawal_tx.value,
                 withdrawal_tx.currency, fee_tx.value, withdrawal_tx.status,
                 withdrawal_tx.blockchain_tx_id))

convert_external_multi_transaction(transactions, blockchain_rows) ==
    LET currency_txs == filter_kinds(transactions, {"MultiFrom", "MultiTo"}, TRUE)
        withdrawal_txs == filter_kinds(transactions, {"MultiFrom", "MultiTo"}, FALSE)
        currency_tx_out == convert_internal_multi_transaction(currency_txs)
        withdrawal_tx_out == convert_external_transaction(withdrawal_txs, blockchain_rows)
    IN  IF ~currency_tx_out.ok THEN currency_tx_out
        ELSE IF ~withdrawal_tx_out.ok THEN withdrawal_tx_out
        ELSE ConvOk(TransactionOut(currency_tx_out.out.id, currency_tx_out.out.from,
                 withdrawal_tx_out.out.to, currency_tx_out.out.from_value,
                 currency_tx_out.out.from_currency, currency_tx_out.out.to_value,
                 currency_tx_out.out.to_currency, withdrawal_tx_out.out.fee,
                 withdrawal_tx_out.out.status, withdrawal_tx_out.out.blockchain_tx_id))

\* convert_transaction(transactions), transactions non-empty
convert_transaction(transactions, blockchain_rows) ==
    IF \E i \in 1..Len(transactions) : transactions[i].gid # transactions[1].gid
    THEN InvalidStructure
    ELSE LET group_kind == transactions[1].group_kind IN
         CASE group_kind = "Deposit" -> convert_deposit_transaction(transactions, blockchain_rows)
           [] group_kind = "Internal" -> convert_internal_transaction(transactions)
           [] group_kind = "InternalMulti" -> convert_internal_multi_transaction(transactions)
           [] group_kind = "Withdrawal" -> convert_external_transaction(transactions, blockchain_rows)
           [] group_kind = "WithdrawalMulti" ->
                  convert_external_multi_transaction(transactions, blockchain_rows)
           [] OTHER -> InvalidStructure

\* fold_statuses(statuses)
fold_statuses(statuses) ==
    IF \E i \in 1..Len(statuses) : statuses[i] = "Pending" THEN "Pending" ELSE "Done"

\* ------------------------------------------------------------------ state
VARIABLES
    ledger,       \* the committed postings (rows of the transactions table)
    chain,        \* the transactions broadcast to the blockchains
    blockchain_transactions,  \* the chain-observed rows the watcher has stored
    pending_blockchain_transactions,  \* the committed pending rows
    worker        \* per call of create_transaction: how far it has run

vars == <<ledger, chain, blockchain_transactions, pending_blockchain_transactions, worker>>

NoInput == Input(0, "none", "none", "none", "none", "none", 0, "none", 0, "none", NoRate)
Result(ok, kind, ctx) == [ok |-> ok, kind |-> kind, ctx |-> ctx]
NoResult == Result(FALSE, "none", "none")

\* pc: idle, compose, exchange, leg, fee, convert, done
\* snap: the rows visible to the DB transaction (taken when it starts)
\* txs: postings written by the internal writers; res: by the withdrawal writer
\* pend: pending rows written; reads: accounts whose balance was read
\* sel: withdrawal_accs_with_balance; cur: current_tx_id
\* winput, wfrom, ovr: arguments of create_external_mono_currency_tx
\* sent: the submissions made; remote: the exchange-gateway calls made
\* result, out: what the call returned; persisted: the postings it committed
\* during: the calls that were running when this one started
IdleWorker ==
    [pc |-> "idle", input |-> NoInput, ty |-> ClassifyErr("none", "none"), snap |-> {},
     txs |-> <<>>, res |-> <<>>, pend |-> {}, reads |-> {}, sel |-> <<>>, cur |-> 0,
     winput |-> NoInput, wfrom |-> NoAccount, ovr |-> NoOvr, sent |-> <<>>,
     remote |-> <<>>, result |-> NoResult, out |-> NoOut, persisted |-> {}, during |-> {}]

InFlight(p) == worker[p].pc \notin {"idle", "done"}

tx_group(w) == w.txs \o w.res

\* the database as worker p's transaction sees it
DbOf(p) ==
    Db(worker[p].snap \cup Range(tx_group(worker[p])),
       {t.id : t \in ledger} \cup {t.id : t \in Range(tx_group(worker[p]))})

\* an insert of one of ids waits while another open transaction holds the id
Blocked(p, ids) ==
    \E q \in Procs \ {p} :
        InFlight(q) /\ ids \cap {t.id : t \in Range(tx_group(worker[q]))} # {}

\* the closure returned Err: the DB transaction is rolled back
Failed(w, r) ==
    [w EXCEPT !.pc = "done", !.result = Result(FALSE, r.kind, r.ctx), !.pend = {}]

\* ------------------------------------------------------------------ inputs
\* the ids the client of the p-th call may send: a fresh one or one an
\* earlier call used
GIDs(p) == {10 * k : k \in 1..p}
exchange_rate == <<2, 1>>
Tokens == {"token_u1", "bad"}

\* auth_service.authenticate(token)
authenticate(token) ==
    CASE token = "token_u1" -> "u1" [] token = "token_u2" -> "u2" [] OTHER -> "none"

Inputs(p) ==
    {Input(id, "u1", "a1", "b1", "Account", "Eth", v, "Eth", 0, "none", NoRate) :
        id \in GIDs(p), v \in 1..MaxValue}
    \cup {Input(id, "u1", "a1", to, "Account", "Btc", v, vc, 0, "ex", exchange_rate) :
        id \in GIDs(p), to \in {"a2", "b2"}, v \in 1..MaxValue, vc \in {"Eth", "Btc"}}
    \cup {Input(id, "u1", "a1", "X", "Address", "Eth", v, "Eth", f, "none", NoRate) :
        id \in GIDs(p), v \in 1..MaxValue, f \in 0..MaxFee}
    \cup {Input(id, "u1", "a1", "X", "Address", "Btc", v, "Eth", f, "ex", exchange_rate) :
        id \in GIDs(p), v \in 1..MaxValue, f \in 0..MaxFee}

\* the rate exchange_client.rate quotes for the fee estimate
quoted_rate == <<1, 1>>

\* deposits recorded by the chain watcher before the first call
InitLedger ==
    { Posting(1, 1, "u1", "d1", "a1", "Eth", 1, "Done", 1, "Deposit", "Deposit"),
      Posting(2, 2, "u1", "d2", "a1", "Eth", 2, "Done", 2, "Deposit", "Deposit"),
      Posting(3, 3, "u1", "dB", "a2", "Btc", 2, "Done", 3, "Deposit", "Deposit"),
      Posting(4, 4, "sys", "sdB", "trB", "Btc", 4, "Done", 4, "Deposit", "Deposit") }

InitChain ==
    { ChainTx(1, "X1", "D1", 1, "Eth"), ChainTx(2, "X2", "D2", 2, "Eth"),
      ChainTx(3, "X3", "DB", 2, "Btc"), ChainTx(4, "X4", "SDB", 4, "Btc") }

Init ==
    /\ ledger = InitLedger
    /\ chain = InitChain
    /\ blockchain_transactions = InitChain
    /\ pending_blockchain_transactions = {}
    /\ worker = [p \in Procs |-> IdleWorker]

\* ----------------------------------------------------------------- actions
\* the hash the chain gives the next submission
NextHash == Cardinality(chain) + 1

\* create_external_mono_currency_tx entered by worker record w: estimate,
\* selection and checks, then on to the first submission (or straight to the
\* fee posting when the selection is empty)
StartWithdrawal(w, db, winput, wfrom, to_currency, ovr, rate_ok, found, sel) ==
    LET est == estimate_withdrawal_fee(winput.fee,
                   unwrap_or(ovr.fee_currency, wfrom.currency), to_currency,
                   rate_ok, quoted_rate)
        r == create_external_mono_currency_tx_prepare(db, winput, wfrom, to_currency,
                                                      ovr, est, found, sel)
        asked == IF wfrom.currency = to_currency /\ est.asked
                 THEN <<[call |-> "rate", ok |-> rate_ok]>> ELSE <<>>
        w1 == [w EXCEPT !.winput = winput, !.wfrom = wfrom, !.ovr = ovr,
                        !.remote = @ \o asked, !.reads = @ \cup r.reads]
    IN  IF ~r.ok THEN Failed(w1, r)
        ELSE [w1 EXCEPT !.sel = sel, !.cur = winput.id,
                        !.pc = IF sel = <<>> THEN "fee" ELSE "leg"]

\* the selections get_accounts_for_withdrawal may answer with
Selections(db, winput, wfrom, to_currency, ovr, rate_ok) ==
    get_accounts_for_withdrawal(db.rows, winput.value, to_currency, winput.user_id,
        estimate_withdrawal_fee(winput.fee, unwrap_or(ovr.fee_currency, wfrom.currency),
                                to_currency, rate_ok, quoted_rate).gross_fee)

\* create_transaction is called: authenticate, open the serializable DB
\* transaction, classify
Begin(p, token, input) ==
    /\ worker[p].pc = "idle"
    /\ \A q \in 1..(p - 1) : worker[q].pc # "idle"
    /\ LET tx_type == validate_and_classify_transaction(input)
           w == [IdleWorker EXCEPT !.input = input, !.ty = tx_type, !.snap = ledger,
                                   !.during = {q \in Procs : InFlight(q)}]
       IN  worker' = [worker EXCEPT ![p] =
               IF authenticate(token) = "none"
               THEN Failed(IdleWorker, Result(FALSE, "Unauthorized", "Authentication"))
               ELSE IF tx_type.type = "Err" THEN Failed(w, tx_type)
               ELSE [w EXCEPT !.pc = "compose"]]
    /\ UNCHANGED <<ledger, chain, blockchain_transactions, pending_blockchain_transactions>>

\* the composer up to its first remote call
Compose(p) ==
    LET w == worker[p]
        input == w.input
        ty == w.ty
        db == DbOf(p)
    IN
    /\ w.pc = "compose"
    /\ \/ /\ ty.type = "Internal"
          /\ ~Blocked(p, {input.id})
          /\ LET r == create_internal_mono_currency_tx(db, input, ty.from, ty.to)
                 w1 == [w EXCEPT !.reads = @ \cup r.reads]
             IN  worker' = [worker EXCEPT ![p] =
                     IF r.ok THEN [w1 EXCEPT !.txs = <<r.tx>>, !.pc = "convert"]
                     ELSE Failed(w1, r)]
       \/ /\ ty.type \in {"InternalExchange", "WithdrawalExchange"}
          /\ ~Blocked(p, {input.id, next(input.id)})
          /\ LET to_account == IF ty.type = "InternalExchange" THEN ty.to
                               ELSE get_system_transfer_account(ty.currency)
                 r == create_internal_multi_currency_tx_postings(db, input, ty.from,
                                                                 to_account, ty.rate)
                 w1 == [w EXCEPT !.reads = @ \cup r.reads, !.txs = r.res]
             IN  worker' = [worker EXCEPT ![p] =
                     IF to_account = NoAccount
                     THEN Failed(w, Result(FALSE, "NotFound", "NoAccount"))
                     ELSE IF r.ok THEN [w1 EXCEPT !.pc = "exchange"]
                     ELSE Failed(w1, r)]
       \/ /\ ty.type = "Withdrawal"
          /\ LET sels == Selections(db, input, ty.from, ty.currency, NoOvr, TRUE)
             IN  \/ /\ sels = {}
                    /\ worker' = [worker EXCEPT ![p] =
                           StartWithdrawal(w, db, input, ty.from, ty.currency, NoOvr,
                                           TRUE, FALSE, <<>>)]
                 \/ \E sel \in sels :
                       worker' = [worker EXCEPT ![p] =
                           StartWithdrawal(w, db, input, ty.from, ty.currency, NoOvr,
                                           TRUE, TRUE, sel)]
    /\ UNCHANGED <<ledger, chain, blockchain_transactions, pending_blockchain_transactions>>

\* exchange_client.exchange(exchange_input, Role::User).wait() answers; for a
\* cross-currency withdrawal the withdrawal writer is entered next, and
\* rate_ok is the answer of exchange_client.rate to its fee estimate
Exchange(p, exchange_ok, rate_ok) ==
    LET w == worker[p]
        input == w.input
        ty == w.ty
        db == DbOf(p)
        r == create_internal_multi_currency_tx_exchange(w.txs, exchange_ok)
        w1 == [w EXCEPT !.remote = Append(@, [call |-> "exchange", ok |-> exchange_ok])]
        transfer_account == get_system_transfer_account(ty.currency)
        withdrawal_value == find_kind(r.res, "MultiTo").value
        winput == external_multi_input(input, transfer_account, withdrawal_value, ty.currency)
        ovr == external_multi_ovr(input, ty.from)
        sels == Selections(db, winput, transfer_account, ty.currency, ovr, rate_ok)
    IN
    /\ w.pc = "exchange"
    /\ \/ /\ ~r.ok
          /\ rate_ok
          /\ worker' = [worker EXCEPT ![p] = Failed(w1, r)]
       \/ /\ r.ok
          /\ ty.type = "InternalExchange"
          /\ rate_ok
          /\ worker' = [worker EXCEPT ![p] = [w1 EXCEPT !.txs = r.res, !.pc = "convert"]]
       \/ /\ r.ok
          /\ ty.type = "WithdrawalExchange"
          /\ \/ /\ sels = {}
                /\ worker' = [worker EXCEPT ![p] =
                       StartWithdrawal(w1, db, winput, transfer_account, ty.currency, ovr,
                                       rate_ok, FALSE, <<>>)]
             \/ \E sel \in sels :
                   worker' = [worker EXCEPT ![p] =
                       StartWithdrawal(w1, db, winput, transfer_account, ty.currency, ovr,
                                       rate_ok, TRUE, sel)]
    /\ UNCHANGED <<ledger, chain, blockchain_transactions, pending_blockchain_transactions>>

\* the greatest element of a non-empty set of numbers
Max(S) == CHOOSE n \in S : \A m \in S : m <= n

\* the values set_nonce stored for the initiator: nonce + 1 of each
\* submission of the calls in ps (the nonce is stored before the signature,
\* inside the call's DB transaction)
set_nonces(ps, initiator) ==
    UNION {{worker[q].sent[i].nonce + 1 :
                i \in {j \in 1..Len(worker[q].sent) :
                           /\ worker[q].sent[j].initiator = initiator
                           /\ worker[q].sent[j].nonce # NoNonce}} : q \in ps}

\* key_values_repo.get_nonce(initiator) as call p's DB transaction sees it:
\* what the call stored itself, else what the calls committed before its
\* snapshot stored
get_nonce(p, initiator) ==
    LET own == set_nonces({p}, initiator)
        committed == set_nonces({q \in Procs \ {p} :
                                     /\ worker[q].pc = "done" /\ worker[q].result.ok
                                     /\ worker[q].persisted # {}
                                     /\ worker[q].persisted \subseteq worker[p].snap},
                                initiator)
    IN  IF own # {} THEN Max(own)
        ELSE IF committed # {} THEN Max(committed)
        ELSE NoNonce

\* blockchain_client.get_ethereum_nonce(initiator): one above the nonces of
\* the initiator's transactions the chain has included
get_ethereum_nonce(initiator) ==
    LET mined == UNION {{worker[q].sent[i].nonce :
                             i \in {j \in 1..Len(worker[q].sent) :
                                 /\ worker[q].sent[j].ok
                                 /\ worker[q].sent[j].initiator = initiator
                                 /\ worker[q].sent[j].nonce # NoNonce
                                 /\ \E r \in blockchain_transactions :
                                        r.hash = worker[q].sent[j].hash}} : q \in Procs}
    IN  IF mined = {} THEN 0 ELSE Max(mined) + 1

\* one iteration of the loop over withdrawal_accs_with_balance: submit the
\* take of the next selected account, then write its posting
Leg(p, posted, pending_ok) ==
    LET w == worker[p]
        i == Len(w.sent) + 1
        acc == w.sel[i].account
        value == w.sel[i].balance
        to_currency == w.ty.currency
        hash == NextHash
        blockchain_tx_id_res == create_blockchain_tx(to_currency, posted, pending_ok, hash)
        initiator == tx_initiator(to_currency, acc.address)
        nonce == IF to_currency = "Btc" THEN NoNonce
                 ELSE choose_nonce(get_nonce(p, initiator), get_ethereum_nonce(initiator))
        r == create_external_mono_currency_tx_leg(DbOf(p), w.winput, w.wfrom, acc, value,
                 to_currency, w.ovr, w.cur, blockchain_tx_id_res.id)
        w1 == [w EXCEPT !.sent = Append(@, [ok |-> blockchain_tx_id_res.ok,
                                            hash |-> blockchain_tx_id_res.id,
                                            initiator |-> initiator, nonce |-> nonce,
                                            pending_failed |-> posted /\ ~pending_ok])]
    IN
    /\ w.pc = "leg"
    /\ \/ /\ blockchain_tx_id_res.ok
          /\ ~Blocked(p, {w.cur})
          /\ chain' = chain \cup {ChainTx(hash, acc.address, w.ty.address, value, to_currency)}
          /\ worker' = [worker EXCEPT ![p] =
                 IF r.ok
                 THEN [w1 EXCEPT !.res = Append(@, r.tx), !.cur = next(@),
                                 !.reads = @ \cup r.reads,
                                 !.pend = @ \cup blockchain_tx_id_res.pending,
                                 !.pc = IF i = Len(w.sel) THEN "fee" ELSE "leg"]
                 ELSE Failed([w1 EXCEPT !.reads = @ \cup r.reads], r)]
       \/ /\ ~blockchain_tx_id_res.ok
          /\ chain' = chain
          /\ worker' = [worker EXCEPT ![p] =
                 IF on_submission_error(Len(w.res)) = "abort"
                 THEN Failed(w1, Result(FALSE, "Internal", "BlockchainClient"))
                 ELSE [w1 EXCEPT !.pc = "fee"]]
    /\ UNCHANGED <<ledger, blockchain_transactions, pending_blockchain_transactions>>

\* the Fee posting that closes create_external_mono_currency_tx
Fee(p) ==
    LET w == worker[p]
        r == create_external_mono_currency_tx_fee(DbOf(p), w.winput, w.wfrom, w.ty.currency,
                                                  w.ovr, w.cur)
        w1 == [w EXCEPT !.reads = @ \cup r.reads]
    IN
    /\ w.pc = "fee"
    /\ ~Blocked(p, {w.cur})
    /\ worker' = [worker EXCEPT ![p] =
           IF r.ok THEN [w1 EXCEPT !.res = Append(@, r.tx), !.pc = "convert"]
           ELSE Failed(w1, r)]
    /\ UNCHANGED <<ledger, chain, blockchain_transactions, pending_blockchain_transactions>>

\* a serializable transaction cannot commit when a row committed since its
\* snapshot touches an account whose balance it read
SerializationFailure(w) ==
    \E t \in ledger \ w.snap : t.dr_account_id \in w.reads \/ t.cr_account_id \in w.reads

\* a commit that replaces the table by the rows of the transaction
DbCommit_replacing(rows, written_rows) == written_rows

\* the commit of a DB transaction: the rows it wrote join the table
DbCommit(rows, written_rows) == rows \cup written_rows

\* convert_transaction(tx_group) ends the closure; on Ok the DB transaction
\* commits and the TransactionOut is returned
Convert(p) ==
    LET w == worker[p]
        c == convert_transaction(tx_group(w), blockchain_transactions)
    IN
    /\ w.pc = "convert"
    /\ IF ~c.ok
       THEN /\ worker' = [worker EXCEPT ![p] = Failed(w, c)]
            /\ UNCHANGED <<ledger, pending_blockchain_transactions>>
       ELSE IF SerializationFailure(w)
       THEN /\ worker' = [worker EXCEPT ![p] =
                   Failed(w, Result(FALSE, "Internal", "SerializationFailure"))]
            /\ UNCHANGED <<ledger, pending_blockchain_transactions>>
       ELSE /\ worker' = [worker EXCEPT ![p] =
                   [w EXCEPT !.pc = "done", !.result = Result(TRUE, "none", "none"),
                             !.out = c.out, !.persisted = Range(tx_group(w)), !.pend = {}]]
            /\ ledger' = DbCommit(ledger, Range(tx_group(w)))
            /\ pending_blockchain_transactions' = pending_blockchain_transactions \cup w.pend
    /\ UNCHANGED <<chain, blockchain_transactions>>

\* the chain watcher stores the row of a transaction it sees on chain
ObserveChainTx(tx) ==
    /\ tx \in chain \ blockchain_transactions
    /\ blockchain_transactions' = blockchain_transactions \cup {tx}
    /\ UNCHANGED <<ledger, chain, pending_blockchain_transactions, worker>>

Next ==
    \/ \E p \in Procs, token \in Tokens : \E input \in Inputs(p) : Begin(p, token, input)
    \/ \E p \in Procs : Compose(p)
    \/ \E p \in Procs, exchange_ok \in BOOLEAN, rate_ok \in BOOLEAN :
           Exchange(p, exchange_ok, rate_ok)
    \/ \E p \in Procs, posted \in BOOLEAN : Leg(p, posted, TRUE)
    \/ \E p \in Procs : Fee(p)
    \/ \E p \in Procs : Convert(p)
    \/ \E tx \in chain : ObserveChainTx(tx)

Spec == Init /\ [][Next]_vars

\* The calls run one after another: each starts when the earlier ones have
\* returned
BeginSeq(p, token, input) ==
    /\ \A q \in 1..(p - 1) : worker[q].pc = "done"
    /\ Begin(p, token, input)

NextSeq ==
    \/ \E p \in Procs, token \in Tokens : \E input \in Inputs(p) : BeginSeq(p, token, input)
    \/ \E p \in Procs : Compose(p)
    \/ \E p \in Procs, exchange_ok \in BOOLEAN, rate_ok \in BOOLEAN :
           Exchange(p, exchange_ok, rate_ok)
    \/ \E p \in Procs, posted \in BOOLEAN : Leg(p, posted, TRUE)
    \/ \E p \in Procs : Fee(p)
    \/ \E p \in Procs : Convert(p)
    \/ \E tx \in chain : ObserveChainTx(tx)

SpecSeq == Init /\ [][NextSeq]_vars

\* The calls run one after another, and the write of the pending row that
\* follows a broadcast may fail
NextPending ==
    \/ \E p \in Procs, token \in Tokens : \E input \in Inputs(p) : BeginSeq(p, token, input)
    \/ \E p \in Procs : Compose(p)
    \/ \E p \in Procs, exchange_ok \in BOOLEAN, rate_ok \in BOOLEAN :
           Exchange(p, exchange_ok, rate_ok)
    \/ \E p \in Procs, posted \in BOOLEAN, pending_ok \in BOOLEAN : Leg(p, posted, pending_ok)
    \/ \E p \in Procs : Fee(p)
    \/ \E p \in Procs : Convert(p)
    \/ \E tx \in chain : ObserveChainTx(tx)

SpecPending == Init /\ [][NextPending]_vars

\* One call whose input ranges over the destinations, currencies and
\* exchange fields a client can send
Destinations == {"a2", "b1", "zz", "X", "A2", "B1", "D1"}

ClassifyInputs ==
    {Input(10, "u1", from, to, to_type, to_currency, 1, value_currency, 0, exchange_id, rate) :
        from \in {"a1", "zz"}, to \in Destinations, to_type \in {"Account", "Address"},
        to_currency \in Currency, value_currency \in Currency,
        exchange_id \in {"ex", "none"}, rate \in {exchange_rate, NoRate}}

NextClassify ==
    \/ \E token \in Tokens, input \in ClassifyInputs : Begin(1, token, input)
    \/ \E p \in Procs : Compose(p)
    \/ \E p \in Procs, exchange_ok \in BOOLEAN, rate_ok \in BOOLEAN :
           Exchange(p, exchange_ok, rate_ok)
    \/ \E p \in Procs, posted \in BOOLEAN : Leg(p, posted, TRUE)
    \/ \E p \in Procs : Fee(p)
    \/ \E p \in Procs : Convert(p)
    \/ \E tx \in chain : ObserveChainTx(tx)

SpecClassify == Init /\ [][NextClassify]_vars

\* One call served by a repository whose get_accounts_for_withdrawal may
\* answer with any list of the user's deposit accounts and takes, within
\* their balances or not, summing to the value or not
any_selection(currency, user_id) ==
    LET accs == {a \in Accounts : a.kind = "Dr" /\ a.currency = currency /\ a.user_id = user_id}
    IN  {<<AccountWithBalance(a, v)>> : a \in accs, v \in 1..MaxValue}
        \cup {<<AccountWithBalance(s[1], s[3]), AccountWithBalance(s[2], s[4])>> :
                  s \in {x \in accs \X accs \X (1..MaxValue) \X (1..MaxValue) : x[1] # x[2]}}

ComposeSelection(p, sel) ==
    /\ worker[p].pc = "compose" /\ worker[p].ty.type = "Withdrawal"
    /\ worker' = [worker EXCEPT ![p] =
           StartWithdrawal(worker[p], DbOf(p), worker[p].input, worker[p].ty.from,
                           worker[p].ty.currency, NoOvr, TRUE, TRUE, sel)]
    /\ UNCHANGED <<ledger, chain, blockchain_transactions, pending_blockchain_transactions>>

NextSelection ==
    \/ \E token \in Tokens, input \in Inputs(1) : Begin(1, token, input)
    \/ \E p \in Procs : Compose(p)
    \/ \E p \in Procs : \E sel \in any_selection(worker[p].ty.currency, worker[p].input.user_id) :
           ComposeSelection(p, sel)
    \/ \E p \in Procs, exchange_ok \in BOOLEAN, rate_ok \in BOOLEAN :
           Exchange(p, exchange_ok, rate_ok)
    \/ \E p \in Procs, posted \in BOOLEAN : Leg(p, posted, TRUE)
    \/ \E p \in Procs : Fee(p)
    \/ \E p \in Procs : Convert(p)
    \/ \E tx \in chain : ObserveChainTx(tx)

SpecSelection == Init /\ [][NextSelection]_vars

\* Calls one after another whose input may also name another user's account
\* as from, or another user as input.user_id
ForeignInputs(p) ==
    {Input(id, user_id, "b1", "a1", "Account", "Eth", v, "Eth", 0, "none", NoRate) :
        id \in GIDs(p), user_id \in {"u1", "u2"}, v \in 1..MaxValue}
    \cup {Input(id, "u1", "b1", "X", "Address", "Eth", v, "Eth", 0, "none", NoRate) :
        id \in GIDs(p), v \in 1..MaxValue}

NextForeign ==
    \/ \E p \in Procs, token \in Tokens : \E input \in Inputs(p) \cup ForeignInputs(p) :
           BeginSeq(p, token, input)
    \/ \E p \in Procs : Compose(p)
    \/ \E p \in Procs, exchange_ok \in BOOLEAN, rate_ok \in BOOLEAN :
           Exchange(p, exchange_ok, rate_ok)
    \/ \E p \in Procs, posted \in BOOLEAN : Leg(p, posted, TRUE)
    \/ \E p \in Procs : Fee(p)
    \/ \E p \in Procs : Convert(p)
    \/ \E tx \in chain : ObserveChainTx(tx)

SpecForeign == Init /\ [][NextForeign]_vars

\* One call on a table that already holds a group the converter must
\* refuse: a posting whose account row is gone, an Approval posting, or one
\* Internal group of two postings
StrayGroups ==
    { {Posting(5, 5, "u1", "gone", "a1", "Eth", 1, "Done", 0, "Internal", "Internal")},
      {Posting(5, 5, "u1", "a1", "b1", "Eth", 1, "Done", 0, "Approval", "Approval")},
      {Posting(5, 5, "u1", "a1", "b1", "Eth", 1, "Done", 0, "Internal", "Internal"),
       Posting(6, 5, "u1", "a1", "b1", "Eth", 1, "Done", 0, "Internal", "Internal")} }

InitStray ==
    /\ ledger \in {InitLedger \cup g : g \in StrayGroups}
    /\ chain = InitChain
    /\ blockchain_transactions = InitChain
    /\ pending_blockchain_transactions = {}
    /\ worker = [p \in Procs |-> IdleWorker]

NextStray ==
    \/ \E token \in Tokens, input \in Inputs(1) : Begin(1, token, input)
    \/ \E p \in Procs : Compose(p)
    \/ \E p \in Procs, exchange_ok \in BOOLEAN, rate_ok \in BOOLEAN :
           Exchange(p, exchange_ok, rate_ok)
    \/ \E p \in Procs, posted \in BOOLEAN : Leg(p, posted, TRUE)
    \/ \E p \in Procs : Fee(p)
    \/ \E p \in Procs : Convert(p)
    \/ \E tx \in chain : ObserveChainTx(tx)

SpecStray == InitStray /\ [][NextStray]_vars

\* --------------------------------------------------------- read operations
\* The read operations change no state: each is an operator of the rows it
\* reads. ReadOk carries the data returned, ReadErr none.
NoData == [none |-> TRUE]
ReadOk(data) == [ok |-> TRUE, kind |-> "none", ctx |-> "none", data |-> data]
ReadErr(kind, ctx) == [ok |-> FALSE, kind |-> kind, ctx |-> ctx, data |-> NoData]
Unauthorized == ReadErr("Unauthorized", "InvalidToken")

\* the tokens a reader may present
ReadTokens == Tokens \cup {"token_u2"}

\* the rows of a set in the order the repository lists them (by id)
RECURSIVE sorted_by_id(_)
sorted_by_id(rows) ==
    IF rows = {} THEN <<>>
    ELSE LET t == CHOOSE t \in rows : \A u \in rows : t.id <= u.id
         IN  <<t>> \o sorted_by_id(rows \ {t})

\* transactions_repo.get(transaction_id)
transactions_repo_get(rows, transaction_id) ==
    IF \E t \in rows : t.id = transaction_id
    THEN CHOOSE t \in rows : t.id = transaction_id
    ELSE NoTx

\* transactions_repo.get_by_gid(gid)
transactions_repo_get_by_gid(rows, gid) == sorted_by_id({t \in rows : t.gid = gid})

\* rows [offset, offset + limit) of a listing
page(listing, offset, limit) ==
    SubSeq(listing, offset + 1, IF offset + limit < Len(listing) THEN offset + limit
                                ELSE Len(listing))

\* transactions_repo.list_for_user(user_id, offset, limit)
transactions_repo_list_for_user(rows, user_id, offset, limit) ==
    page(sorted_by_id({t \in rows : t.user_id = user_id}), offset, limit)

\* transactions_repo.list_for_account(account_id, offset, limit)
transactions_repo_list_for_account(rows, account_id, offset, limit) ==
    page(sorted_by_id({t \in rows : account_id \in {t.dr_account_id, t.cr_account_id}}),
         offset, limit)

\* the postings of one gid, in the order of the input
RECURSIVE of_gid(_, _)
of_gid(transactions, gid) ==
    IF transactions = <<>> THEN <<>>
    ELSE (IF Head(transactions).gid = gid THEN <<Head(transactions)>> ELSE <<>>)
         \o of_gid(Tail(transactions), gid)

\* group_transactions(transactions): the groups by gid; a HashMap, so the
\* order of the groups is unspecified and the result is a set
group_transactions(transactions) ==
    {of_gid(transactions, gid) : gid \in {t.gid : t \in Range(transactions)}}

MAX_TRANSACTIONS_PER_TRANSACTION_OUT == 3

\* group_transactions(..).map(convert_transaction).take(limit).collect():
\* the results the call may return, one per choice of the groups the
\* iteration yields first
convert_first(transactions, blockchain_rows, limit) ==
    LET groups == group_transactions(transactions)
        n == IF limit < Cardinality(groups) THEN limit ELSE Cardinality(groups)
        result(taken) ==
            IF \A g \in taken : convert_transaction(g, blockchain_rows).ok
            THEN {ReadOk({convert_transaction(g, blockchain_rows).out : g \in taken})}
            ELSE {ReadErr(convert_transaction(g, blockchain_rows).kind,
                          convert_transaction(g, blockchain_rows).ctx) :
                      g \in {h \in taken : ~convert_transaction(h, blockchain_rows).ok}}
    IN  UNION {result(taken) : taken \in {G \in SUBSET groups : Cardinality(G) = n}}

\* the pages a reader may ask for
MaxOffset == 4
MaxLimit == 2
Offsets == 0..MaxOffset
Limits == 1..MaxLimit

\* get_transaction without the ownership check
get_transaction_any_owner(rows, blockchain_rows, token, transaction_id) ==
    LET user == authenticate(token)
        transaction == transactions_repo_get(rows, transaction_id)
        c == convert_transaction(transactions_repo_get_by_gid(rows, transaction.gid),
                                 blockchain_rows)
    IN  IF user = "none" THEN ReadErr("Unauthorized", "Authentication")
        ELSE IF transaction = NoTx THEN ReadOk(NoOut)
        ELSE IF ~c.ok THEN ReadErr(c.kind, c.ctx)
        ELSE ReadOk(c.out)

\* get_transaction converting the posting found instead of its group
get_transaction_single(rows, blockchain_rows, token, transaction_id) ==
    LET user == authenticate(token)
        transaction == transactions_repo_get(rows, transaction_id)
        c == convert_transaction(<<transaction>>, blockchain_rows)
    IN  IF user = "none" THEN ReadErr("Unauthorized", "Authentication")
        ELSE IF transaction = NoTx THEN ReadOk(NoOut)
        ELSE IF transaction.user_id # user THEN Unauthorized
        ELSE IF ~c.ok THEN ReadErr(c.kind, c.ctx)
        ELSE ReadOk(c.out)

\* get_transaction(token, transaction_id)
get_transaction(rows, blockchain_rows, token, transaction_id) ==
    LET user == authenticate(token)
        transaction == transactions_repo_get(rows, transaction_id)
        c == convert_transaction(transactions_repo_get_by_gid(rows, transaction.gid),
                                 blockchain_rows)
    IN  IF user = "none" THEN ReadErr("Unauthorized", "Authentication")
        ELSE IF transaction = NoTx THEN ReadOk(NoOut)
        ELSE IF transaction.user_id # user THEN Unauthorized
        ELSE IF ~c.ok THEN ReadErr(c.kind, c.ctx)
        ELSE ReadOk(c.out)

\* TransactionsService::get_account_balance(token, account_id)
service_get_account_balance(rows, token, account_id) ==
    LET user == authenticate(token)
        account == accounts_repo_get(account_id)
    IN  IF user = "none" THEN ReadErr("Unauthorized", "Authentication")
        ELSE IF account = NoAccount THEN ReadErr("NotFound", "NoAccount")
        ELSE IF account.user_id # user THEN Unauthorized
        ELSE ReadOk(AccountWithBalance(account, get_accounts_balance(rows, account)))

\* get_transactions_for_user(token, user_id, offset, limit): the results the
\* call may return
get_transactions_for_user(rows, blockchain_rows, token, user_id, offset, limit) ==
    LET user == authenticate(token) IN
    IF user = "none" THEN {ReadErr("Unauthorized", "Authentication")}
    ELSE IF user_id # user THEN {Unauthorized}
    ELSE convert_first(
             transactions_repo_list_for_user(rows, user_id, offset,
                 limit * MAX_TRANSACTIONS_PER_TRANSACTION_OUT),
             blockchain_rows, limit)

\* get_account_transactions(token, account_id, offset, limit): the results
\* the call may return
get_account_transactions(rows, blockchain_rows, token, account_id, offset, limit) ==
    LET user == authenticate(token)
        account == accounts_repo_get(account_id)
    IN  IF user = "none" THEN {ReadErr("Unauthorized", "Authentication")}
        ELSE IF account = NoAccount THEN {ReadErr("NotFound", "NoAccount")}
        ELSE IF account.user_id # user THEN {Unauthorized}
        ELSE convert_first(
                 transactions_repo_list_for_account(rows, account_id, offset,
                     limit * MAX_TRANSACTIONS_PER_TRANSACTION_OUT),
                 blockchain_rows, limit)

\* ------------------------------------------------------------ properties
Done(p) == worker[p].pc = "done"
Succeeded(p) == Done(p) /\ worker[p].result.ok
Called(p) == worker[p].input # NoInput

\* the two calls ran concurrently: one started while the other was running
Concurrent(p, q) == q \in worker[p].during \/ p \in worker[q].during

\* the first i - 1 postings of a group
Earlier(group, i) == {group[j] : j \in 1..(i - 1)}

\* what the call asks to take from its from account: the value in the
\* account's currency, plus the fee of a withdrawal
requested_debit(w) ==
    CASE w.ty.type = "Internal" -> w.input.value
      [] w.ty.type = "Withdrawal" -> w.input.value + w.input.fee
      [] w.ty.type = "InternalExchange" ->
             multi_values(w.input, w.ty.from, w.ty.to, w.ty.rate)[1]
      [] w.ty.type = "WithdrawalExchange" ->
             multi_values(w.input, w.ty.from, get_system_transfer_account(w.ty.currency),
                          w.ty.rate)[1] + w.input.fee
      [] OTHER -> 0

\* C1: in every reachable state each user Cr account has credits >= debits
\* over the committed postings, and every committed posting's value was
\* within the balance its debit account had when the posting was inserted
C1_NoOverdraft ==
    /\ \A a \in UserCrAccountIds : credit_sum(ledger, a) >= debit_sum(ledger, a)
    /\ \A p \in Procs : Succeeded(p) =>
           LET group == tx_group(worker[p]) IN
           \A i \in 1..Len(group) :
               group[i].value <=
                   get_accounts_balance(worker[p].snap \cup Earlier(group, i),
                                        accounts_repo_get(group[i].dr_account_id))

\* C1 witness: a committed call has drawn a1 down to exactly zero and a later
\* call on a1 was refused with a Balance error
C1_Witness ==
    \E p, q \in Procs :
        /\ Succeeded(p) /\ worker[p].input.from = "a1"
        /\ debit_sum(ledger, "a1") > 0
        /\ credit_sum(ledger, "a1") = debit_sum(ledger, "a1")
        /\ Done(q) /\ worker[q].input.from = "a1" /\ worker[q].result.kind = "Balance"

\* C2: two concurrent calls that debit the same account, each asking for no
\* more than the account's balance but together for more, never both commit
C2_NoDoubleSpend ==
    \A p, q \in Procs :
        LET a == worker[p].ty.from
            balance == get_accounts_balance(worker[p].snap, a)
        IN  ( /\ p # q /\ Done(p) /\ Done(q) /\ Concurrent(p, q)
              /\ worker[p].ty.type # "Err" /\ worker[q].ty.type # "Err"
              /\ Called(p) /\ Called(q)
              /\ worker[q].ty.from = a
              /\ get_accounts_balance(worker[q].snap, a) = balance
              /\ requested_debit(worker[p]) <= balance
              /\ requested_debit(worker[q]) <= balance
              /\ requested_debit(worker[p]) + requested_debit(worker[q]) > balance )
            => ~(worker[p].result.ok /\ worker[q].result.ok)

\* C2 witness: two concurrent transfers from a1, each within the balance and
\* together above it; one committed and the other was aborted at commit
C2_Witness ==
    \E p, q \in Procs :
        /\ p # q /\ Concurrent(p, q)
        /\ worker[p].ty.type = "Internal" /\ worker[q].ty.type = "Internal"
        /\ worker[p].input.id # worker[q].input.id
        /\ requested_debit(worker[p]) <= get_accounts_balance(worker[p].snap, worker[p].ty.from)
        /\ requested_debit(worker[q]) <= get_accounts_balance(worker[q].snap, worker[q].ty.from)
        /\ requested_debit(worker[p]) + requested_debit(worker[q])
               > get_accounts_balance(worker[p].snap, worker[p].ty.from)
        /\ Succeeded(p)
        /\ Done(q) /\ worker[q].result = Result(FALSE, "Internal", "SerializationFailure")
        /\ worker[q].persisted = {}

\* the call's request is one its from account can fund
Fundable(p) ==
    requested_debit(worker[p]) <= get_accounts_balance(worker[p].snap, worker[p].ty.from)

\* no third call has committed since call p started
Undisturbed(p, q) ==
    ledger \ worker[p].snap \subseteq worker[p].persisted \cup worker[q].persisted

FirstSubmissionFailed(p) == Len(worker[p].sent) >= 1 /\ ~worker[p].sent[1].ok

\* the call's exchange_client.exchange failed
ExchangeFailed(p) ==
    \E i \in 1..Len(worker[p].remote) :
        worker[p].remote[i] = [call |-> "exchange", ok |-> FALSE]

\* nothing the call wrote is in the ledger (unless another call committed
\* the identical row)
NothingPersisted(p) ==
    /\ worker[p].persisted = {}
    /\ \A t \in Range(tx_group(worker[p])) :
           t \in ledger => \E q \in Procs \ {p} : t \in worker[q].persisted

\* C5: a withdrawal (mono or cross-currency) whose first submission fails
\* makes no further submission, returns the Internal error of that
\* submission and leaves no posting committed, MultiFrom and MultiTo included
C5_FirstSubmissionFailure ==
    \A p \in Procs :
        FirstSubmissionFailed(p) =>
            /\ Done(p)
            /\ worker[p].result = Result(FALSE, "Internal", "BlockchainClient")
            /\ Len(worker[p].sent) = 1
            /\ NothingPersisted(p)

\* C5 witness: a Withdrawal and a WithdrawalExchange (its MultiFrom and
\* MultiTo already written) have both ended on a failed first submission
C5_Witness ==
    \E p, q \in Procs :
        /\ Done(p) /\ worker[p].ty.type = "Withdrawal" /\ FirstSubmissionFailed(p)
        /\ Done(q) /\ worker[q].ty.type = "WithdrawalExchange" /\ FirstSubmissionFailed(q)
        /\ Len(worker[q].txs) = 2
        /\ ~worker[p].result.ok /\ ~worker[q].result.ok

\* C10: when exchange_client.exchange fails, the InternalExchange or
\* WithdrawalExchange call returns the error, submits nothing to the chain
\* and leaves no posting committed
C10_ExchangeFailure ==
    \A p \in Procs :
        ExchangeFailed(p) =>
            /\ Done(p)
            /\ ~worker[p].result.ok /\ worker[p].result.ctx = "ExchangeClient"
            /\ worker[p].sent = <<>>
            /\ NothingPersisted(p)

\* C10 witness: an InternalExchange and a WithdrawalExchange, each with its
\* MultiFrom and MultiTo written, have both ended on a failed exchange
C10_Witness ==
    \E p, q \in Procs :
        /\ Done(p) /\ worker[p].ty.type = "InternalExchange" /\ ExchangeFailed(p)
        /\ Done(q) /\ worker[q].ty.type = "WithdrawalExchange" /\ ExchangeFailed(q)
        /\ Len(worker[p].txs) = 2 /\ Len(worker[q].txs) = 2
        /\ ~worker[p].result.ok /\ ~worker[q].result.ok

\* every remote call the call made succeeded
AllRemoteOk(p) ==
    /\ \A i \in 1..Len(worker[p].remote) : worker[p].remote[i].ok
    /\ \A i \in 1..Len(worker[p].sent) : worker[p].sent[i].ok

\* the composer has returned (Ok or Err) for the call
Composed(p) == worker[p].pc \in {"convert", "done"}

\* the errors create_transaction raises after the composer has returned Ok
AfterComposer == {"InvalidTransactionStructure", "SerializationFailure"}

\* C4 as stated: once a submission of the call has succeeded the composer
\* still returns its group, closed by the Fee posting and holding a
\* Withdrawal posting for every successful submission, and the group commits
C4_PartialWriteCommits ==
    \A p \in Procs :
        ((\E i \in 1..Len(worker[p].sent) : worker[p].sent[i].ok) /\ Composed(p)) =>
            LET res == worker[p].res IN
            /\ res # <<>> /\ res[Len(res)].kind = "Fee"
            /\ \A i \in 1..Len(worker[p].sent) : worker[p].sent[i].ok =>
                   \E t \in Range(res) : /\ t.kind = "Withdrawal"
                                         /\ t.blockchain_tx_id = worker[p].sent[i].hash
            /\ (Done(p) /\ worker[p].result.ctx \notin AfterComposer) =>
                   (worker[p].result.ok /\ Range(res) \subseteq ledger)

\* C6 as stated: a Withdrawal split over two accounts whose first submission
\* succeeded and second failed returns success, with exactly the Pending
\* Withdrawal posting of the first take and the Done Fee posting of
\* input.fee committed, and reports status Pending
C6_SplitSecondFails ==
    \A p \in Procs :
        ( /\ Done(p) /\ worker[p].ty.type = "Withdrawal" /\ Len(worker[p].sel) = 2
          /\ Len(worker[p].sent) = 2 /\ worker[p].sent[1].ok /\ ~worker[p].sent[2].ok )
        => /\ worker[p].result.ok
           /\ \E w, f \in worker[p].persisted :
                  /\ worker[p].persisted = {w, f}
                  /\ w.kind = "Withdrawal" /\ w.status = "Pending"
                  /\ w.value = worker[p].sel[1].balance
                  /\ w.blockchain_tx_id = worker[p].sent[1].hash
                  /\ f.kind = "Fee" /\ f.status = "Done" /\ f.value = worker[p].input.fee
           /\ worker[p].out.status = "Pending"

\* C7 as stated: when every take of a Withdrawal's selection was submitted
\* successfully the composer returns its n Withdrawal postings (i-th value
\* the i-th take, Pending, the i-th submission's id) followed by one Done Fee
\* posting, the Withdrawal values summing to input.value
C7_AllLegsWritten ==
    \A p \in Procs :
        LET w == worker[p]
            n == Len(w.sel)
        IN  ( /\ w.ty.type = "Withdrawal" /\ n >= 1 /\ Composed(p)
              /\ Len(w.sent) = n /\ \A i \in 1..n : w.sent[i].ok )
            => /\ Len(w.res) = n + 1
               /\ \A i \in 1..n : /\ w.res[i].kind = "Withdrawal"
                                  /\ w.res[i].value = w.sel[i].balance
                                  /\ w.res[i].status = "Pending"
                                  /\ w.res[i].blockchain_tx_id = w.sent[i].hash
               /\ w.res[n + 1].kind = "Fee" /\ w.res[n + 1].status = "Done"
               /\ SumValues({w.res[i] : i \in 1..n}) = w.input.value

\* C8 as stated: a fundable cross-currency withdrawal whose remote calls
\* all succeeded and whose legs were all submitted commits MultiFrom (from
\* -> liquidity of A), MultiTo (transfer -> liquidity of B), a Pending
\* Withdrawal debiting the transfer account and a Fee in A from the user's
\* from account to the fees account of A
C8_CrossCurrencyWithdrawal ==
    \A p \in Procs :
        LET w == worker[p]
            A == w.ty.from.currency
            B == w.ty.currency
            transfer == get_system_transfer_account(B)
        IN  ( /\ Done(p) /\ w.ty.type = "WithdrawalExchange" /\ Fundable(p)
              /\ w.during = {} /\ ledger \ w.snap \subseteq w.persisted
              /\ AllRemoteOk(p) /\ Len(w.sent) >= 1 /\ Len(w.sent) = Len(w.sel) )
            => /\ w.result.ok
               /\ \E mf, mt, wd, fee \in w.persisted :
                      /\ mf.kind = "MultiFrom" /\ mf.currency = A
                      /\ mf.dr_account_id = w.ty.from.id
                      /\ mf.cr_account_id = get_system_liquidity_account(A).id
                      /\ mt.kind = "MultiTo" /\ mt.currency = B
                      /\ mt.dr_account_id = transfer.id
                      /\ mt.cr_account_id = get_system_liquidity_account(B).id
                      /\ wd.kind = "Withdrawal" /\ wd.currency = B /\ wd.status = "Pending"
                      /\ wd.dr_account_id = transfer.id
                      /\ fee.kind = "Fee" /\ fee.currency = A
                      /\ fee.dr_account_id = w.ty.from.id
                      /\ fee.cr_account_id = get_system_fees_account(A).id

\* C9 as stated: an InternalExchange from an account holding from_value to
\* a destination with balance 0, running alone with the exchange succeeding,
\* succeeds and commits exactly MultiFrom (from -> from liquidity) and MultiTo
\* (to_value, destination on the debit side), the exchange called once with
\* the input's id and rate
C9_ExchangeToEmptyAccount ==
    \A p \in Procs :
        LET w == worker[p]
            vals == multi_values(w.input, w.ty.from, w.ty.to, w.ty.rate)
        IN  ( /\ Done(p) /\ w.ty.type = "InternalExchange" /\ Fundable(p)
              /\ get_accounts_balance(w.snap, w.ty.to) = 0
              /\ w.during = {} /\ ledger \ w.snap \subseteq w.persisted
              /\ ~ExchangeFailed(p) )
            => /\ w.result.ok
               /\ w.persisted =
                      { Posting(w.input.id, w.input.id, w.input.user_id, w.ty.from.id,
                                get_system_liquidity_account(w.ty.from.currency).id,
                                w.ty.from.currency, vals[1], "Done", 0, "MultiFrom",
                                "InternalMulti"),
                        Posting(next(w.input.id), w.input.id, w.input.user_id, w.ty.to.id,
                                get_system_liquidity_account(w.ty.to.currency).id,
                                w.ty.to.currency, vals[2], "Done", 0, "MultiTo",
                                "InternalMulti") }
               /\ w.remote = <<[call |-> "exchange", ok |-> TRUE]>>
               /\ ExchangeInput(w.input, w.ty.from, w.ty.to, w.ty.exchange_id, w.ty.rate).id
                      = w.input.exchange_id
               /\ ExchangeInput(w.input, w.ty.from, w.ty.to, w.ty.exchange_id, w.ty.rate).rate
                      = w.input.exchange_rate

\* no other call ran while call p did
Isolated(p) == \A q \in Procs \ {p} : ~Concurrent(p, q)

\* the balance of the call's from account when the call started
balance_before(p) == get_accounts_balance(worker[p].snap, worker[p].ty.from)

\* C11: an Internal transfer of a value above the balance of its from
\* account (value - 1 = balance included) fails with Balance/NotEnoughFunds
\* and commits nothing; one of a value up to the balance (value = balance
\* included), with an unused id and no other call running, succeeds and
\* commits exactly one posting, of that value
C11_ExactBalanceBoundary ==
    \A p \in Procs :
        (Done(p) /\ Called(p) /\ worker[p].ty.type = "Internal") =>
            /\ worker[p].input.value > balance_before(p) =>
                   /\ worker[p].result = Result(FALSE, "Balance", "NotEnoughFunds")
                   /\ NothingPersisted(p)
            /\ ( /\ worker[p].input.value <= balance_before(p)
                 /\ Isolated(p)
                 /\ \A t \in worker[p].snap : t.id # worker[p].input.id )
                   => /\ worker[p].result.ok
                      /\ worker[p].persisted \subseteq ledger
                      /\ \E t \in worker[p].persisted :
                             /\ worker[p].persisted = {t}
                             /\ t.value = worker[p].input.value
                             /\ t.dr_account_id = worker[p].ty.from.id

\* C11 witness: a transfer of exactly the balance has committed its one
\* posting, and a later transfer of one unit more than the balance then left
\* has failed with Balance
C11_Witness ==
    \E p, q \in Procs :
        /\ Succeeded(p) /\ worker[p].ty.type = "Internal"
        /\ worker[p].input.value = balance_before(p)
        /\ Cardinality(worker[p].persisted) = 1
        /\ Done(q) /\ Called(q) /\ worker[q].ty.type = "Internal"
        /\ worker[q].input.value = balance_before(q) + 1
        /\ worker[q].result = Result(FALSE, "Balance", "NotEnoughFunds")
        /\ worker[q].persisted = {}

\* converting the group the call stored succeeds, and the TransactionOut
\* carries the values, currencies, fee, status and blockchain_tx_id of the
\* group's postings (from side: Internal, MultiFrom or Withdrawal; to side:
\* Internal, MultiTo or Withdrawal; fee: the Fee posting)
RoundTrips(p) ==
    LET G == tx_group(worker[p])
        c == convert_transaction(G, blockchain_transactions)
    IN  /\ G # <<>> /\ Range(G) = worker[p].persisted
        /\ c.ok
        /\ \E f, t \in Range(G) :
               /\ f.kind \in {"Internal", "MultiFrom", "Withdrawal"}
               /\ t.kind \in {"Internal", "MultiTo", "Withdrawal"}
               /\ c.out.from_value = f.value /\ c.out.from_currency = f.currency
               /\ c.out.to_value = t.value /\ c.out.to_currency = t.currency
               /\ c.out.status = t.status
               /\ c.out.blockchain_tx_id = t.blockchain_tx_id
        /\ \A t \in Range(G) : t.kind = "Fee" => c.out.fee = t.value
        /\ (\A t \in Range(G) : t.kind # "Fee") => c.out.fee = 0

\* C12 as stated: the Composer commits groups of all four kinds and each
\* stored group converts back to a TransactionOut carrying its postings'
\* values: every committed group round-trips, and a fundable WithdrawalExchange
\* running alone whose remote calls and submissions all succeeded hands a
\* WithdrawalMulti group to the converter
C12_RoundTrip ==
    /\ \A p \in Procs : Succeeded(p) => RoundTrips(p)
    /\ \A p \in Procs :
           ( /\ Done(p) /\ worker[p].ty.type = "WithdrawalExchange"
             /\ Fundable(p) /\ Isolated(p) /\ AllRemoteOk(p)
             /\ Len(worker[p].sent) >= 1 /\ Len(worker[p].sent) = Len(worker[p].sel) )
           => \/ Succeeded(p) /\ \E t \in worker[p].persisted : t.group_kind = "WithdrawalMulti"
              \/ worker[p].result.ctx \in AfterComposer

\* the first half of C12 alone, which holds: every committed group round-trips
C12_CommittedRoundTrip == \A p \in Procs : Succeeded(p) => RoundTrips(p)

\* C13 as stated: the TransactionOut of a committed Internal group has
\* from = the posting's debit account and to = its credit account
C13_InternalFromTo ==
    \A p \in Procs :
        (Succeeded(p) /\ worker[p].ty.type = "Internal") =>
            \E t \in worker[p].persisted :
                /\ worker[p].persisted = {t}
                /\ Len(worker[p].out.from) = 1
                /\ worker[p].out.from[1].account_id = t.dr_account_id
                /\ worker[p].out.to.account_id = t.cr_account_id

\* C14 as stated: a Withdrawal group converts as soon as the composer has
\* written it, when each submission it refers to is known as a pending row
\* only or as a chain-observed row, and `to` is the destination address of
\* the row of the Withdrawal posting's blockchain_tx_id
C14_PendingRowDestination ==
    \A p \in Procs :
        LET w == worker[p]
            c == convert_transaction(tx_group(w), blockchain_transactions)
        IN  (w.pc = "convert" /\ w.ty.type = "Withdrawal") =>
                /\ c.ok
                /\ \E t \in Range(w.res), r \in chain :
                       /\ t.kind = "Withdrawal"
                       /\ r.hash = t.blockchain_tx_id
                       /\ r.hash \in w.pend \/ r \in blockchain_transactions
                       /\ c.out.blockchain_tx_id = t.blockchain_tx_id
                       /\ c.out.to.blockchain_address = r.to

\* the users owning accounts
Users == {a.user_id : a \in Accounts}

\* C15: every read operation answers Unauthorized, returning no data, when
\* its subject belongs to another user than the authenticated one:
\* get_transaction by the posting's user_id, get_account_balance and
\* get_account_transactions by the account's user_id,
\* get_transactions_for_user by the requested user_id
C15_ReadsRejectOtherUsers ==
    \A token \in ReadTokens :
        LET user == authenticate(token) IN
        user # "none" =>
            /\ \A t \in ledger : t.user_id # user =>
                   get_transaction(ledger, blockchain_transactions, token, t.id) = Unauthorized
            /\ \A a \in Accounts : a.user_id # user =>
                   /\ service_get_account_balance(ledger, token, a.id) = Unauthorized
                   /\ \A offset \in {0, MaxOffset}, limit \in {MaxLimit} :
                          get_account_transactions(ledger, blockchain_transactions, token,
                                                   a.id, offset, limit) = {Unauthorized}
            /\ \A u \in Users \ {user}, offset \in {0, MaxOffset}, limit \in {MaxLimit} :
                   get_transactions_for_user(ledger, blockchain_transactions, token, u,
                                             offset, limit) = {Unauthorized}

\* C15 witness: a transfer from u1's a1 to u2's b1 is committed; u2 is
\* refused the posting, u1's listing and a1's balance and listing, u1 is
\* refused b1's balance, and each owner is served
C15_Witness ==
    \E p \in Procs : \E t \in worker[p].persisted :
        /\ Succeeded(p) /\ t.user_id = "u1"
        /\ t.dr_account_id = "a1" /\ t.cr_account_id = "b1"
        /\ get_transaction(ledger, blockchain_transactions, "token_u2", t.id) = Unauthorized
        /\ get_transaction(ledger, blockchain_transactions, "token_u1", t.id).ok
        /\ service_get_account_balance(ledger, "token_u2", "a1") = Unauthorized
        /\ service_get_account_balance(ledger, "token_u1", "b1") = Unauthorized
        /\ service_get_account_balance(ledger, "token_u2", "b1").ok
        /\ get_transactions_for_user(ledger, blockchain_transactions, "token_u2", "u1", 0, 1)
               = {Unauthorized}
        /\ get_account_transactions(ledger, blockchain_transactions, "token_u2", "a1", 0, 1)
               = {Unauthorized}
        /\ \E r \in get_account_transactions(ledger, blockchain_transactions, "token_u2",
                                             "b1", 0, 1) : r.ok

\* C16 as stated: while every stored group is well-formed, a listing of
\* limit L >= 1 (no group has more than 3 postings) succeeds for every
\* offset, returns at most L TransactionOuts, and each of them is the
\* conversion of all the postings of its group
C16_ListingWholeGroups ==
    (\A t \in ledger :
         convert_transaction(transactions_repo_get_by_gid(ledger, t.gid),
                             blockchain_transactions).ok)
    => \A offset \in Offsets, limit \in Limits :
           \A r \in get_transactions_for_user(ledger, blockchain_transactions, "token_u1",
                                              "u1", offset, limit) :
               /\ r.ok
               /\ Cardinality(r.data) <= limit
               /\ \A out \in r.data :
                      out = convert_transaction(transactions_repo_get_by_gid(ledger, out.id),
                                                blockchain_transactions).out

\* C17 as stated: the postings a Composer path writes under one gid, and so
\* the postings the ledger holds under one gid, share one group_kind
C17_OneGroupKindPerGid ==
    /\ \A s, t \in ledger : s.gid = t.gid => s.group_kind = t.group_kind
    /\ \A p \in Procs :
           \A s, t \in Range(tx_group(worker[p])) :
               s.gid = t.gid => s.group_kind = t.group_kind

\* the postings call p has written in its DB transaction or committed
written(p) == Range(tx_group(worker[p])) \cup worker[p].persisted

C19_StatusAndChainId ==
    \A t \in ledger :
        /\ t.kind = "Withdrawal" => (t.blockchain_tx_id # 0 /\ t.status = "Pending")
        /\ t.kind \in {"Internal", "MultiFrom", "MultiTo", "Fee"} =>
               (t.blockchain_tx_id = 0 /\ t.status = "Done")

\* C19 witness: the ledger holds a committed Withdrawal posting whose
\* blockchain_tx_id is a broadcast transaction, its Fee posting, and a
\* committed Internal or MultiFrom posting of another call
C19_Witness ==
    \E p, q \in Procs :
        /\ p # q /\ Succeeded(p) /\ Succeeded(q)
        /\ \E w, f \in worker[p].persisted \cap ledger :
               /\ w.kind = "Withdrawal" /\ f.kind = "Fee" /\ w.gid = f.gid
               /\ \E c \in chain : c.hash = w.blockchain_tx_id
        /\ \E t \in worker[q].persisted \cap ledger : t.kind \in {"Internal", "MultiFrom"}

\* C20 as stated: every committed posting has a value above 0, whatever
\* accepted input created it
C20_PositiveValues == \A t \in ledger : t.value > 0

nonce_submissions(p) ==
    {worker[p].sent[i] : i \in {j \in 1..Len(worker[p].sent) :
                                    worker[p].sent[j].ok /\ worker[p].sent[j].nonce # NoNonce}}

\* C22 as stated: submissions for one initiator made one after another, by
\* one call or by calls that did not overlap, are signed with strictly
\* increasing nonces, whether or not the chain nonce has advanced in between
C22_IncreasingNonces ==
    /\ \A p \in Procs : \A i, j \in 1..Len(worker[p].sent) :
           ( /\ i < j /\ worker[p].sent[i].nonce # NoNonce /\ worker[p].sent[j].nonce # NoNonce
             /\ worker[p].sent[i].initiator = worker[p].sent[j].initiator )
           => worker[p].sent[i].nonce < worker[p].sent[j].nonce
    /\ \A p, q \in Procs :
           (p < q /\ ~Concurrent(p, q)) =>
               \A s \in nonce_submissions(p), t \in nonce_submissions(q) :
                   s.initiator = t.initiator => s.nonce < t.nonce

\* C23 as stated: two concurrent calls never sign and broadcast for one
\* initiator with the same nonce
C23_NoSharedNonce ==
    \A p, q \in Procs :
        (p # q /\ Concurrent(p, q)) =>
            \A s \in nonce_submissions(p), t \in nonce_submissions(q) :
                s.initiator = t.initiator => s.nonce # t.nonce

\* C24: when the write of the pending row fails after a successful
\* broadcast, the submission still returns the blockchain_tx_id, and the
\* Composer records the Withdrawal posting with that id (committed with the
\* group when the call succeeds)
C24_PendingRowFailureSwallowed ==
    \A p \in Procs : \A i \in 1..Len(worker[p].sent) :
        LET s == worker[p].sent[i] IN
        s.pending_failed =>
            /\ s.ok /\ \E c \in chain : c.hash = s.hash
            /\ s.hash \notin worker[p].pend \cup pending_blockchain_transactions
            /\ (InFlight(p) \/ Succeeded(p)) =>
                   \E t \in Range(worker[p].res) :
                       /\ t.kind = "Withdrawal" /\ t.blockchain_tx_id = s.hash
                       /\ Succeeded(p) => t \in ledger

\* C24 witness: a withdrawal whose pending row could not be written has
\* committed its Withdrawal posting with the id of the broadcast transaction,
\* and no pending row of that id exists
C24_Witness ==
    \E p \in Procs : \E i \in 1..Len(worker[p].sent) : \E t \in ledger :
        /\ Succeeded(p) /\ worker[p].sent[i].pending_failed
        /\ t \in worker[p].persisted /\ t.kind = "Withdrawal"
        /\ t.blockchain_tx_id = worker[p].sent[i].hash
        /\ worker[p].sent[i].hash \notin pending_blockchain_transactions

\* C25 as stated: a fundable cross-currency withdrawal whose remote calls
\* all succeeded and whose legs were all submitted commits a group in which
\* the system transfer account is a pure hop: the values of the group's
\* postings debiting it sum to the values of the postings crediting it
C25_TransferAccountHop ==
    \A p \in Procs :
        LET w == worker[p]
            transfer == get_system_transfer_account(w.ty.currency)
        IN  ( /\ Done(p) /\ w.ty.type = "WithdrawalExchange" /\ Fundable(p)
              /\ w.during = {} /\ ledger \ w.snap \subseteq w.persisted
              /\ AllRemoteOk(p) /\ Len(w.sent) >= 1 /\ Len(w.sent) = Len(w.sel) )
            => /\ w.result.ok
               /\ \E t \in w.persisted : t.kind = "Withdrawal"
               /\ SumValues({t \in w.persisted : t.dr_account_id = transfer.id})
                      = SumValues({t \in w.persisted : t.cr_account_id = transfer.id})

\* the owned Cr account an Address destination resolves to, NoAccount if none
owned_at(input) == accounts_repo_get_by_address(input.to, input.to_currency, "Cr")

\* the request names an existing from account and carries both exchange
\* fields
WithExchange(input) ==
    /\ accounts_repo_get(input.from) # NoAccount
    /\ input.exchange_id # "none" /\ input.exchange_rate # NoRate

\* C26 as stated: for an Address destination with no owned Cr account at
\* (address, to_currency), the request (exchange fields present) is rejected
\* with MalformedInput exactly when some owned account at that address has a
\* currency other than to_currency; otherwise it is a Withdrawal when the
\* from account has to_currency and a WithdrawalExchange when not
C26_ForeignCurrencyAddress ==
    \A p \in Procs :
        LET input == worker[p].input
            ty == worker[p].ty
            from_account == accounts_repo_get(input.from)
            foreign == \E a \in Accounts : a.address = input.to /\ a.currency # input.to_currency
        IN  ( /\ Called(p) /\ WithExchange(input) /\ input.to_type = "Address"
              /\ owned_at(input) = NoAccount )
            => /\ (ty.type = "Err" /\ ty.kind = "MalformedInput") <=> foreign
               /\ ~foreign => ty.type = IF from_account.currency = input.to_currency
                                        THEN "Withdrawal" ELSE "WithdrawalExchange"

\* the destination of the request resolves to an owned account: by account
\* id, or by the address of an owned Cr account of to_currency
to_account_of(input) ==
    IF input.to_type = "Account" THEN accounts_repo_get(input.to) ELSE owned_at(input)

\* C27 as stated: a cross-currency request between two owned accounts
\* (destination given by account id or by address) whose value_currency is
\* neither account's currency is rejected with MalformedInput; no posting is
\* written and the exchange is not called
C27_ValueCurrencyRejected ==
    \A p \in Procs :
        LET input == worker[p].input
            from_account == accounts_repo_get(input.from)
            to_account == to_account_of(input)
        IN  ( /\ Called(p) /\ Done(p) /\ WithExchange(input) /\ to_account # NoAccount
              /\ to_account.currency = input.to_currency
              /\ from_account.currency # to_account.currency
              /\ input.value_currency \notin {from_account.currency, to_account.currency} )
            => /\ worker[p].result.kind = "MalformedInput"
               /\ NothingPersisted(p) /\ tx_group(worker[p]) = <<>>
               /\ worker[p].remote = <<>>

\* C28: a destination that resolves to an owned account is never a
\* withdrawal: it is Internal when the two currencies are equal and
\* InternalExchange when not, unless rejected; an Account destination whose
\* currency is not to_currency is rejected with MalformedInput; a
\* cross-currency classification carries the exchange_id and exchange_rate
\* of the request, and a cross-currency request missing either is rejected
\* with MalformedInput
C28_ClassifiedByDestination ==
    \A p \in Procs :
        LET input == worker[p].input
            ty == worker[p].ty
            from_account == accounts_repo_get(input.from)
            to_account == to_account_of(input)
            cross == from_account.currency #
                         (IF to_account # NoAccount THEN to_account.currency
                          ELSE input.to_currency)
        IN  (Called(p) /\ from_account # NoAccount) =>
            /\ to_account # NoAccount =>
                   /\ ty.type \notin {"Withdrawal", "WithdrawalExchange"}
                   /\ ty.type # "Err" =>
                          /\ ty.type = IF from_account.currency = to_account.currency
                                       THEN "Internal" ELSE "InternalExchange"
                          /\ ty.from = from_account /\ ty.to = to_account
            /\ ( /\ input.to_type = "Account" /\ to_account # NoAccount
                 /\ to_account.currency # input.to_currency )
               => ty.type = "Err" /\ ty.kind = "MalformedInput"
            /\ ty.type \in {"InternalExchange", "WithdrawalExchange"} =>
                   /\ cross
                   /\ ty.exchange_id = input.exchange_id /\ ty.exchange_id # "none"
                   /\ ty.rate = input.exchange_rate /\ ty.rate # NoRate
            /\ ty.type \in {"Internal", "Withdrawal"} => ~cross
            /\ ( /\ cross /\ (input.exchange_id = "none" \/ input.exchange_rate = NoRate)
                 /\ (input.to_type = "Account" => is_account_id(input.to)) )
               => ty.type = "Err" /\ ty.kind \in {"MalformedInput", "NotFound"}
            /\ ( /\ cross /\ (input.exchange_id = "none" \/ input.exchange_rate = NoRate)
                 /\ to_account # NoAccount /\ to_account.currency = input.to_currency )
               => ty.type = "Err" /\ ty.kind = "MalformedInput"
                  /\ ty.ctx = "MissingExchangeRate"

\* C28 witness: a request whose destination is the address of an owned Cr
\* account of another currency than the from account's was classified as an
\* InternalExchange to that account, carrying the request's exchange_id, and
\* the call succeeded
C28_Witness ==
    \E p \in Procs :
        LET input == worker[p].input
            ty == worker[p].ty
        IN  /\ Called(p) /\ input.to_type = "Address" /\ owned_at(input) # NoAccount
            /\ ty.type = "InternalExchange" /\ ty.to = owned_at(input)
            /\ ty.exchange_id = "ex" /\ Succeeded(p)

\* the double check or the sum check of create_external_mono_currency_tx
\* refuses the selection: a take above the account's Dr balance, or takes
\* that do not sum to value
refused_selection(rows, sel, value) ==
    \/ \E i \in 1..Len(sel) : get_account_balance(rows, sel[i].account.id, "Dr") < sel[i].balance
    \/ SumValues({[id |-> i, value |-> sel[i].balance] : i \in 1..Len(sel)}) # value

\* C29: a Withdrawal whose selection holds a take above the account's Dr
\* balance fails with a Balance error, and one whose takes do not sum to
\* input.value with InvalidValue; the call ends there: nothing was
\* submitted (so no broadcast and no nonce written), no posting was
\* written, and the chain and the ledger are unchanged
C29_ValidationBeforeChain ==
    [][\A p \in Procs :
          (worker[p].pc = "compose" /\ worker[p].ty.type = "Withdrawal") =>
              \A sel \in any_selection(worker[p].ty.currency, worker[p].input.user_id) :
                  LET w == StartWithdrawal(worker[p], DbOf(p), worker[p].input,
                                           worker[p].ty.from, worker[p].ty.currency,
                                           NoOvr, TRUE, TRUE, sel)
                  IN  refused_selection(DbOf(p).rows, sel, worker[p].input.value) =>
                          /\ w.pc = "done"
                          /\ w.result \in {Result(FALSE, "Balance", "NotEnoughFunds"),
                                          Result(FALSE, "Internal", "InvalidValue")}
                          /\ w.sent = <<>> /\ tx_group(w) = <<>> /\ w.pend = {}
                          /\ worker'[p] = w =>
                                 /\ chain' = chain /\ ledger' = ledger
                                 /\ pending_blockchain_transactions'
                                        = pending_blockchain_transactions
    ]_vars

\* C29 witness: a Withdrawal was refused with InvalidValue because its
\* takes did not sum to input.value; it submitted nothing, persisted nothing
\* and the chain is as it was
C29_Witness ==
    \E p \in Procs :
        /\ Done(p) /\ worker[p].ty.type = "Withdrawal" /\ worker[p].sent = <<>>
        /\ worker[p].result = Result(FALSE, "Internal", "InvalidValue")
        /\ NothingPersisted(p) /\ chain = InitChain

\* C30 as stated: a Withdrawal broadcasts a blockchain transaction only
\* when its from account holds at least input.value + input.fee: a call
\* with a successful submission is one its from account can fund
C30_NoBroadcastUnfunded ==
    \A p \in Procs :
        ( /\ worker[p].ty.type = "Withdrawal"
          /\ \E i \in 1..Len(worker[p].sent) : worker[p].sent[i].ok )
        => Fundable(p)

\* the place of a posting kind in the order the composer writes a group
kind_order(kind) ==
    CASE kind = "MultiFrom" -> 1 [] kind = "MultiTo" -> 2 [] kind = "Withdrawal" -> 3
      [] kind = "Fee" -> 4 [] OTHER -> 0

\* C31: the postings of a group are written in the order MultiFrom, MultiTo,
\* Withdrawal legs in selection order, Fee last (at most one MultiFrom,
\* MultiTo and Fee); the k-th posting written has id gid + (k - 1), the id
\* next() yields after k - 1 applications, so the ids are pairwise distinct
\* and consecutive, also when the two writers are chained and when a leg is
\* skipped after a failed submission; a committed group is exactly the
\* postings written
C31_OrderAndIds ==
    \A p \in Procs :
        LET w == worker[p]
            g == tx_group(w)
            legs == SelectSeq(g, LAMBDA t : t.kind = "Withdrawal")
            oks == SelectSeq(w.sent, LAMBDA s : s.ok)
        IN  /\ \A k \in 1..Len(g) :
                   /\ g[k].gid = w.input.id
                   /\ g[k].id = w.input.id + (k - 1)
            /\ \A j, k \in 1..Len(g) :
                   j < k => /\ kind_order(g[j].kind) <= kind_order(g[k].kind)
                            /\ g[j].kind = g[k].kind => g[k].kind = "Withdrawal"
                            /\ g[j].id # g[k].id
            /\ \A k \in 1..Len(legs) :
                   k <= Len(oks) /\ legs[k].blockchain_tx_id = oks[k].hash
            /\ Succeeded(p) => w.persisted = Range(g) /\ Range(g) \subseteq ledger

\* C31 witness: a Withdrawal over two deposit accounts whose second
\* submission failed has committed the first leg with id gid and the Fee
\* posting with the next id
C31_Witness ==
    \E p \in Procs :
        LET w == worker[p] IN
        /\ Succeeded(p) /\ w.ty.type = "Withdrawal"
        /\ Len(w.sel) = 2 /\ Len(w.sent) = 2 /\ w.sent[1].ok /\ ~w.sent[2].ok
        /\ Len(w.res) = 2 /\ w.res[1].kind = "Withdrawal" /\ w.res[1].id = w.input.id
        /\ w.res[2].kind = "Fee" /\ w.res[2].id = next(w.input.id)
        /\ Range(w.res) \subseteq ledger

\* the calls of exchange_client.exchange the call has made
exchange_calls(p) ==
    {i \in 1..Len(worker[p].remote) : worker[p].remote[i].call = "exchange"}

\* C32: a call invokes exchange_client.exchange at most once, and only when
\* its MultiFrom and its MultiTo posting have both been written; a call whose
\* MultiFrom or MultiTo posting was refused has not invoked it
C32_ExchangeAfterPostings ==
    \A p \in Procs :
        LET w == worker[p] IN
        /\ Cardinality(exchange_calls(p)) <= 1
        /\ exchange_calls(p) # {} =>
               /\ w.ty.type \in {"InternalExchange", "WithdrawalExchange"}
               /\ Len(w.txs) = 2
               /\ w.txs[1].kind = "MultiFrom" /\ w.txs[2].kind = "MultiTo"
        /\ (Done(p) /\ Len(w.txs) < 2) => exchange_calls(p) = {}

\* C32 witness: one call has invoked the exchange after writing MultiFrom
\* and MultiTo, and a later cross-currency call whose MultiFrom posting was
\* refused for lack of funds has ended without invoking it
C32_Witness ==
    \E p, q \in Procs :
        /\ Cardinality(exchange_calls(p)) = 1 /\ Len(worker[p].txs) = 2
        /\ Done(q) /\ worker[q].ty.type \in {"InternalExchange", "WithdrawalExchange"}
        /\ worker[q].result = Result(FALSE, "Balance", "NotEnoughFunds")
        /\ worker[q].txs = <<>> /\ exchange_calls(q) = {}

\* C33 as stated: once exchange_client.exchange has succeeded for a call,
\* the call ends with its MultiFrom and MultiTo postings committed
C33_ExchangedGroupCommits ==
    \A p \in Procs :
        ( /\ Done(p)
          /\ \E i \in exchange_calls(p) : worker[p].remote[i].ok )
        => /\ worker[p].result.ok
           /\ Range(worker[p].txs) \subseteq worker[p].persisted
           /\ Range(worker[p].txs) \subseteq ledger

\* C34 as stated: a Withdrawal called with the input.id of a Withdrawal
\* group committed before the call started fails with Internal, persists
\* no posting and submits no blockchain transaction
C34_ReplayNoBroadcast ==
    \A p, q \in Procs :
        ( /\ p # q /\ Succeeded(q) /\ worker[q].ty.type = "Withdrawal"
          /\ Done(p) /\ worker[p].ty.type = "Withdrawal"
          /\ worker[p].input.id = worker[q].input.id
          /\ worker[q].persisted # {} /\ worker[q].persisted \subseteq worker[p].snap )
        => /\ worker[p].result.kind = "Internal"
           /\ NothingPersisted(p)
           /\ \A i \in 1..Len(worker[p].sent) : ~worker[p].sent[i].ok

\* the calls whose DB transaction has committed
committed_calls == {q \in Procs : Succeeded(q) /\ worker[q].persisted # {}}

\* the nonces of the initiator's transactions that were broadcast
broadcast_nonces(initiator) ==
    UNION {{s.nonce : s \in {t \in nonce_submissions(q) : t.initiator = initiator}} :
               q \in Procs}

\* C35 as stated: the nonce the key-value repository holds for an initiator
\* is at most the greater of the chain nonce and the highest nonce broadcast
\* for the initiator plus one
C35_PersistedNonceBound ==
    \A p \in Procs : \A i \in 1..Len(worker[p].sent) :
        LET initiator == worker[p].sent[i].initiator
            stored == set_nonces(committed_calls, initiator)
        IN  stored # {} =>
                Max(stored) <= Max({get_ethereum_nonce(initiator)}
                                   \cup {n + 1 : n \in broadcast_nonces(initiator)})

\* C36 as stated: a call authenticated as one user whose from account, or
\* whose input.user_id, belongs to another user persists no posting and
\* broadcasts nothing (every call that got past authentication presented
\* the token of u1)
C36_OnlyOwnAccountsDebited ==
    \A p \in Procs :
        LET input == worker[p].input
            user == authenticate("token_u1")
        IN  ( /\ Called(p)
              /\ \/ accounts_repo_get(input.from).user_id # user
                 \/ input.user_id # user )
            => /\ NothingPersisted(p)
               /\ \A i \in 1..Len(worker[p].sent) : ~worker[p].sent[i].ok

\* C37 as stated: for every group of the table (the postings of one gid),
\* convert_transaction returns a TransactionOut or the Internal error
\* InvalidTransactionStructure, whatever is wrong with the group
C37_ConvertOrInvalidStructure ==
    \A t \in ledger :
        LET c == convert_transaction(transactions_repo_get_by_gid(ledger, t.gid),
                                     blockchain_transactions)
        IN  c.ok \/ c = InvalidStructure

\* C38 as stated: the TransactionOut of a committed InternalExchange from
\* account F to account T, as create_transaction returns it and as
\* get_transaction reads it back, has from = F and to = T
C38_ExchangeFromTo ==
    \A p \in Procs :
        LET w == worker[p]
            read == get_transaction(ledger, blockchain_transactions, "token_u1", w.input.id)
        IN  (Succeeded(p) /\ w.ty.type = "InternalExchange") =>
                /\ Len(w.out.from) = 1
                /\ w.out.from[1].account_id = w.ty.from.id
                /\ w.out.to.account_id = w.ty.to.id
                /\ read.ok /\ read.data.to.account_id = w.ty.to.id

\* C39 as stated: the TransactionOut of a committed Withdrawal group with
\* several Withdrawal postings carries their summed value as from_value and
\* to_value, and is Pending while any of them is Pending
C39_LegsSummed ==
    \A p \in Procs :
        LET w == worker[p]
            legs == {t \in w.persisted : t.kind = "Withdrawal"}
            read == get_transaction(ledger, blockchain_transactions, "token_u1", w.input.id)
        IN  (Succeeded(p) /\ w.ty.type = "Withdrawal" /\ Cardinality(legs) >= 2) =>
                /\ w.out.from_value = SumValues(legs)
                /\ w.out.to_value = SumValues(legs)
                /\ (\E t \in legs : t.status = "Pending") => w.out.status = "Pending"
                /\ read.ok /\ read.data.from_value = SumValues(legs)

\* C40: get_transaction with the id of any posting of a committed group
\* returns the TransactionOut of the whole group, its id the gid, equal to
\* the one create_transaction returned for the group; with an id no posting
\* has it returns None and no error
C40_GetByAnyPostingId ==
    /\ \A p \in Procs :
           Succeeded(p) =>
               \A t \in worker[p].persisted :
                   LET read == get_transaction(ledger, blockchain_transactions,
                                               "token_u1", t.id)
                   IN  /\ read = ReadOk(worker[p].out)
                       /\ read.data.id = t.gid /\ t.gid = worker[p].input.id
    /\ \A id \in 1..(10 * MaxCalls + 3) :
           (\A t \in ledger : t.id # id) =>
               get_transaction(ledger, blockchain_transactions, "token_u1", id) = ReadOk(NoOut)

\* C40 witness: a group of several postings is committed and get_transaction
\* with the id of its last posting, which is not the gid, returns the
\* TransactionOut create_transaction returned
C40_Witness ==
    \E p \in Procs :
        LET g == tx_group(worker[p]) IN
        /\ Succeeded(p) /\ Len(g) >= 2 /\ g[Len(g)].id # worker[p].input.id
        /\ g[Len(g)] \in ledger
        /\ get_transaction(ledger, blockchain_transactions, "token_u1", g[Len(g)].id)
               = ReadOk(worker[p].out)
        /\ worker[p].out.id = worker[p].input.id

====
